---- MODULE Spec2Model ----
(***************************************************************************)
(* Model of the trolley CRM tools: the duplicate merge run                 *)
(* (attio-tools/merge_duplicates.py), the retrying API client and the      *)
(* cursor-paginated extractor (attio-tools/crm_migration/migrate.py).      *)
(*                                                                         *)
(* Text values are sequences of one-character strings, so that lower(),    *)
(* split() and friends are computed and not assumed.                       *)
(***************************************************************************)
EXTENDS Integers, Sequences, FiniteSets, TLC

VARIABLES
    \* ---- merge_duplicates.main -------------------------------------------
    target,          \* the target system: record id -> company record
    records,         \* result of fetch_all_companies()
    duplicates,      \* name groups with more than one member, in dict order
    gi,              \* position of the `for name, recs in duplicates.items()` loop
    master,          \* recs[0] of the current group
    others,          \* recs[1:] of the current group
    final_domains,   \* consolidated domains of the current group
    oi,              \* position of the `for o in others` loop
    mpc,             \* control point of main()
    issued,          \* history: every DELETE / PATCH request sent, in order
    begun,           \* history: the groups whose loop body was entered, in order
    \* ---- migrate.APIClient ----------------------------------------------
    MAX_RETRIES,     \* module setting MAX_RETRIES (read once from the environment)
    base_url,        \* APIClient.base_url
    call,            \* the running request(): method, url, kwargs
    attempt,         \* loop variable of `for attempt in range(MAX_RETRIES)`
    outcome,         \* how request() ended: response, raised error or None
    sent,            \* history: the session.request calls of this request()
    slept,           \* history: the time.sleep calls of this request()
    \* ---- migrate.extract_records ----------------------------------------
    source,          \* the source system: the pages of the collection
    xrecords,        \* extract_records.records
    cursor,          \* extract_records.cursor
    page,            \* extract_records.page
    xpc,             \* control point of extract_records()
    asked,           \* history: the params of every client.get call, in order
    \* ---- migrate.execute_migration --------------------------------------
    mrecords,        \* argument `records`: the flat records to migrate
    mapping,         \* argument `mapping`: (source field, target field) in dict order
    target_object,   \* argument `target_object`
    dry_run,         \* argument `dry_run`
    ri,              \* position of the `for record in records` loop
    payload,         \* payload of the record at hand
    success_count,       \* MigrationLogger.success_count
    error_count,         \* MigrationLogger.error_count
    successful_records,  \* MigrationLogger.successful_records
    failed_records,      \* MigrationLogger.failed_records
    gpc,             \* control point of execute_migration()
    written,         \* history: the writes entered on the target client, in order
    \* ---- find_duplicates.process_people ----------------------------------
    fetched,         \* argument `records`: the people as fetched
    dup_people,      \* the returned `duplicates`, in dict order
    fpc,             \* control point of process_people()
    \* ---- migrate.flatten_record ------------------------------------------
    frecord,         \* the caller's record, argument `record`
    given,           \* history: the record as it was handed over
    flats,           \* history: the results of the calls, in order
    \* ---- migrate: module configuration and the start of main ------------
    environ,         \* os.environ, for the six settings
    loaded,          \* the module constants read from it
    cpc,             \* control point of the start-up
    clients,         \* number of APIClient objects created
    \* ---- find_duplicates.process_companies next to merge_duplicates ------
    cfetched,        \* the fetched company records, argument `records`
    dup_domains,     \* process_companies: groups by domain
    dup_names,       \* process_companies: groups by name
    mduplicates,     \* merge_duplicates.main: `duplicates` for the same records
    kpc,             \* control point
    \* ---- migrate.main, from the extraction to execute_migration -----------
    extracted,       \* what extract_records returned
    answers,         \* the answers to the two confirmations (True with --yes)
    npc,             \* control point of main()
    \* ---- fetch_all_companies / fetch_all_records --------------------------
    stored,            \* the records of the queried object on the target, in query order
    object_slug,     \* which fetch runs: the object queried
    collected,       \* `records`, the list being accumulated
    offset,          \* `offset`
    payloads,        \* history: the offsets requested, in order
    fetch_failed,    \* history: a request raised
    qpc              \* control point of the fetch loop

mergeVars == <<target, records, duplicates, gi, master, others, final_domains,
               oi, mpc, issued, begun>>

clientVars == <<MAX_RETRIES, base_url, call, attempt, outcome, sent, slept>>

extractVars == <<source, xrecords, cursor, page, xpc, asked>>

migrateVars == <<mrecords, mapping, target_object, dry_run, ri, payload,
                 success_count, error_count, successful_records, failed_records,
                 gpc, written>>

findVars == <<fetched, dup_people, fpc>>

flattenVars == <<frecord, given, flats>>

configVars == <<environ, loaded, cpc, clients>>

companyVars == <<cfetched, dup_domains, dup_names, mduplicates, kpc>>

mainVars == <<extracted, answers, npc>>

fetchVars == <<stored, object_slug, collected, offset, payloads, fetch_failed, qpc>>

vars == <<mergeVars, clientVars, extractVars, migrateVars, findVars, flattenVars, configVars, companyVars, mainVars, fetchVars>>

\* the state each part of the program leaves alone
notMerge == <<clientVars, extractVars, migrateVars, findVars, flattenVars, configVars, companyVars, mainVars, fetchVars>>
notClient == <<mergeVars, extractVars, migrateVars, findVars, flattenVars, configVars, companyVars, mainVars, fetchVars>>
notExtract == <<mergeVars, migrateVars, findVars, flattenVars, configVars, companyVars, mainVars, fetchVars>>
notMigrate == <<mergeVars, extractVars, findVars, flattenVars, configVars, companyVars, mainVars, fetchVars>>
notFind == <<mergeVars, clientVars, extractVars, migrateVars, flattenVars, configVars, companyVars, mainVars, fetchVars>>
notFlatten == <<mergeVars, clientVars, extractVars, migrateVars, findVars, configVars, companyVars, mainVars, fetchVars>>
notConfig == <<mergeVars, clientVars, extractVars, migrateVars, findVars, flattenVars, companyVars, mainVars, fetchVars>>
notCompany == <<mergeVars, clientVars, extractVars, migrateVars, findVars, flattenVars, configVars, mainVars, fetchVars>>
notMain == <<mergeVars, clientVars, extractVars, migrateVars, findVars, flattenVars, configVars, companyVars, fetchVars>>
notFetch == <<mergeVars, clientVars, extractVars, migrateVars, findVars, flattenVars, configVars, companyVars, mainVars>>

(***************************************************************************)
(* Bounds                                                                  *)
(***************************************************************************)
MaxRecs == 4         \* company records stored by the target
FetchLimit == 3      \* page size of the record query (1000 in the script)
MaxRetriesBound == 3 \* largest MAX_RETRIES setting explored
MaxBatch == 2        \* records handed to execute_migration
MaxUrl == 3          \* characters of a link after its prefix
MaxHeld == 9         \* records of one object on the target during a fetch
MaxCompanies == 3    \* fetched companies handed to process_companies
MaxPeople == 3       \* people handed to process_people
MaxPages == 3        \* pages of the source collection

(***************************************************************************)
(* Text helpers                                                            *)
(***************************************************************************)
\* str.lower() on one character of the alphabet used by the model
LowerChar(c) ==
    CASE c = "A" -> "a"
      [] c = "B" -> "b"
      [] c = "X" -> "x"
      [] c = "U" -> "u"
      [] OTHER -> c

\* str.lower()
lower(s) == [i \in DOMAIN s |-> LowerChar(s[i])]

Range(s) == {s[i] : i \in DOMAIN s}

\* str.rstrip('/')
RECURSIVE rstrip_slash(_)
rstrip_slash(s) ==
    IF s # <<>> /\ s[Len(s)] = "/" THEN rstrip_slash(SubSeq(s, 1, Len(s) - 1)) ELSE s

\* str.lstrip('/')
RECURSIVE lstrip_slash(_)
lstrip_slash(s) ==
    IF s # <<>> /\ s[1] = "/" THEN lstrip_slash(Tail(s)) ELSE s

\* str.strip(): leading and trailing blanks removed
RECURSIVE strip(_)
strip(s) ==
    IF s # <<>> /\ s[1] = " " THEN strip(Tail(s))
    ELSE IF s # <<>> /\ s[Len(s)] = " " THEN strip(SubSeq(s, 1, Len(s) - 1))
    ELSE s

\* sub in s
Contains(s, sub) ==
    \E i \in 1..(Len(s) - Len(sub) + 1) : SubSeq(s, i, i + Len(sub) - 1) = sub

\* s.split(c)[-1]: the text after the last c
AfterLast(s, c) ==
    LET at == {i \in DOMAIN s : s[i] = c}
    IN IF at = {} THEN s
       ELSE SubSeq(s, (CHOOSE i \in at : \A j \in at : j <= i) + 1, Len(s))

\* s.split(c)[0]: the text before the first c
BeforeFirst(s, c) ==
    LET at == {i \in DOMAIN s : s[i] = c}
    IN IF at = {} THEN s
       ELSE SubSeq(s, 1, (CHOOSE i \in at : \A j \in at : i <= j) - 1)

(***************************************************************************)
(* Source records and migrate.flatten_record                               *)
(*                                                                         *)
(* A record maps field names to values; a value is a text, a dict of texts *)
(* or None.                                                                *)
(***************************************************************************)
NoDict == [k \in {} |-> <<>>]
Text(s) == [t |-> "str", s |-> s, d |-> NoDict]
Dict(d) == [t |-> "dict", s |-> <<>>, d |-> d]
NoneValue == [t |-> "none", s |-> <<>>, d |-> NoDict]

\* record.get(field, {})
GetOrEmptyDict(r, field) == IF field \in DOMAIN r THEN r[field] ELSE Dict(NoDict)

\* d.get(key, '')
GetOrEmptyText(d, key) == IF key \in DOMAIN d THEN d[key] ELSE <<>>

\* isinstance(v, dict)
IsDict(v) == v.t = "dict"

\* r with r[field] = v
Put(r, field, v) == [k \in DOMAIN r \cup {field} |-> IF k = field THEN v ELSE r[k]]

TwitterDomain == <<"t", "w", "i", "t", "t", "e", "r", ".", "c", "o", "m", "/">>
XDomain == <<"x", ".", "c", "o", "m", "/">>

\* the handle clean-up of flatten_record (x_url)
\* variant of CleanHandle that keeps what follows a '.'
CleanHandle_KeepDot(x_url) ==
    IF x_url = <<>> THEN x_url
    ELSE LET stripped == strip(x_url)
         IN IF Contains(stripped, TwitterDomain) \/ Contains(stripped, XDomain)
            THEN BeforeFirst(AfterLast(rstrip_slash(stripped), "/"), "?")
            ELSE stripped

CleanHandle(x_url) ==
    IF x_url = <<>> THEN x_url
    ELSE LET stripped == strip(x_url)
             cut == IF Contains(stripped, TwitterDomain) \/ Contains(stripped, XDomain)
                    THEN BeforeFirst(AfterLast(rstrip_slash(stripped), "/"), "?")
                    ELSE stripped
         IN IF "." \in Range(cut) THEN BeforeFirst(cut, ".") ELSE cut

\* flat['name_full']
FlattenName(r, flat) ==
    LET name == GetOrEmptyDict(r, "name")
    IN IF IsDict(name)
       THEN Put(flat, "name_full",
                Text(strip(GetOrEmptyText(name.d, "firstName") \o <<" ">>
                           \o GetOrEmptyText(name.d, "lastName"))))
       ELSE flat

\* flat['email_primary']
FlattenEmail(r, flat) ==
    LET emails == GetOrEmptyDict(r, "emails")
    IN IF IsDict(emails)
       THEN Put(flat, "email_primary", Text(GetOrEmptyText(emails.d, "primaryEmail")))
       ELSE flat

\* flat['linkedin_url']
FlattenLinkedin(r, flat) ==
    LET linkedin == GetOrEmptyDict(r, "linkedinLink")
    IN IF IsDict(linkedin)
       THEN Put(flat, "linkedin_url", Text(GetOrEmptyText(linkedin.d, "primaryLinkUrl")))
       ELSE flat

\* flat['x_url']
FlattenX(r, flat) ==
    LET x_link == GetOrEmptyDict(r, "xLink")
    IN IF IsDict(x_link)
       THEN Put(flat, "x_url", Text(CleanHandle(GetOrEmptyText(x_link.d, "primaryLinkUrl"))))
       ELSE flat

\* flatten_record(record)
flatten_record(r) == FlattenX(r, FlattenLinkedin(r, FlattenEmail(r, FlattenName(r, r))))

\* [flatten_record(r) for r in batch]
FlattenBatch(batch) == [i \in DOMAIN batch |-> flatten_record(batch[i])]

(***************************************************************************)
(* migrate.APIClient                                                       *)
(***************************************************************************)
REQUEST_TIMEOUT == 30
DEFAULT_MAX_RETRIES == 3

\* url = f"{self.base_url}/{endpoint.lstrip('/')}"
Url(base, endpoint) == base \o <<"/">> \o lstrip_slash(endpoint)

\* kwargs with the default timeout added when the caller gave none
WithTimeout(kwargs) ==
    IF "timeout" \in DOMAIN kwargs THEN kwargs
    ELSE kwargs @@ ("timeout" :> REQUEST_TIMEOUT)

NoKwargs == [k \in {} |-> 0]

\* request(): the state before the retry loop
RequestEntry(method, endpoint, kwargs) ==
    [method |-> method, url |-> Url(base_url, endpoint), kwargs |-> WithTimeout(kwargs)]

\* variant of AttemptArgs that lengthens the timeout on every retry
AttemptArgs_GrowingTimeout(c, a) ==
    [c EXCEPT !.kwargs = [k \in DOMAIN c.kwargs |->
        IF k = "timeout" THEN c.kwargs[k] * (a + 1) ELSE c.kwargs[k]]]

\* what attempt a passes to session.request(method, url, **kwargs)
AttemptArgs(c, a) == c

\* variant of Backoff with a linear delay
Backoff_Linear(a) == 2 * a

\* time.sleep(2 ** attempt)
Backoff(a) == 2 ^ a

\* attempt == MAX_RETRIES - 1
\* variant of IsLastAttempt for a loop that never re-raises
IsLastAttempt_Never(a) == FALSE

IsLastAttempt(a) == a = MAX_RETRIES - 1

\* what one session.request + raise_for_status can do: a response without an
\* error status, an HTTPError for a 4xx or 5xx status, or a RequestException
\* without response (connection failure, timeout)
\* a response body.  form: "json" for a JSON object with at least one key,
\* "empty" for the JSON object {}, "invalid" for a body that is not JSON.
\* data: the 'data' value of a JSON object (absent, a list, a dict with one
\* key holding a list, a record, or a scalar); next_cursor: meta.next_cursor
\* (None or a text); record_id: data.id.record_id (None or a text)
NoneCursor == [none |-> TRUE, s |-> <<>>]
TextCursor(s) == [none |-> FALSE, s |-> s]
NoId == [none |-> TRUE, s |-> ""]
Id(s) == [none |-> FALSE, s |-> s]
AbsentData == [t |-> "absent", items |-> <<>>, key |-> <<>>]
ListData(items) == [t |-> "list", items |-> items, key |-> <<>>]
DictData(key, items) == [t |-> "dict", items |-> items, key |-> key]
RecordData == [t |-> "record", items |-> <<>>, key |-> <<>>]
ScalarData == [t |-> "scalar", items |-> <<>>, key |-> <<>>]
Body(data, next) ==
    [form |-> "json", data |-> data, next_cursor |-> next, record_id |-> NoId]
EmptyBody == Body(AbsentData, NoneCursor)
\* {"data": {"id": {"record_id": id}}}, id possibly None
RecordBody(id) == [Body(RecordData, NoneCursor) EXCEPT !.record_id = id]
\* {}
EmptyJson == [EmptyBody EXCEPT !.form = "empty"]
\* a body response.json() cannot parse
NotJson == [EmptyBody EXCEPT !.form = "invalid"]

NoAnswer == [kind |-> "none", status |-> 0, body |-> EmptyBody, attempt |-> 0]
OkAnswer(body, a) == [kind |-> "response", status |-> 200, body |-> body, attempt |-> a]
HttpError(status, a) == [kind |-> "HTTPError", status |-> status, body |-> EmptyBody, attempt |-> a]
NetworkError(a) == [kind |-> "RequestException", status |-> 0, body |-> EmptyBody, attempt |-> a]

ErrorStatuses == {400, 500}

Answers(bodies, a) ==
    {OkAnswer(b, a) : b \in bodies}
        \cup {HttpError(st, a) : st \in ErrorStatuses}
        \cup {NetworkError(a)}

\* both except clauses of request() catch: HTTPError and RequestException
Caught(ans) == ans.kind \in {"HTTPError", "RequestException"}

Idle == [kind |-> "idle", answer |-> NoAnswer]
Pending == [kind |-> "pending", answer |-> NoAnswer]

\* the client is not part of the run
ClientUnused ==
    /\ MAX_RETRIES = DEFAULT_MAX_RETRIES
    /\ base_url = <<>>
    /\ call = [method |-> "", url |-> <<>>, kwargs |-> NoKwargs]
    /\ attempt = 0
    /\ outcome = Idle
    /\ sent = <<>>
    /\ slept = <<>>

\* APIClient.__init__ under a MAX_RETRIES setting among `settings`
ClientInit(settings) ==
    /\ MAX_RETRIES \in settings
    /\ base_url \in {rstrip_slash(b) : b \in {<<"h">>, <<"h", "/">>}}
    /\ call = [method |-> "", url |-> <<>>, kwargs |-> NoKwargs]
    /\ attempt = 0
    /\ outcome = Idle
    /\ sent = <<>>
    /\ slept = <<>>

\* a caller enters request(method, endpoint, **kwargs)
Enter(method, endpoint, kwargs) ==
    /\ call' = RequestEntry(method, endpoint, kwargs)
    /\ attempt' = 0
    /\ outcome' = Pending
    /\ sent' = <<>>
    /\ slept' = <<>>
    /\ UNCHANGED <<MAX_RETRIES, base_url>>

\* one pass of the retry loop of request(), or its end; `bodies` are the
\* bodies the server may answer with
Attempt(bodies) ==
    /\ outcome.kind = "pending"
    /\ IF attempt >= MAX_RETRIES
       THEN \* range(MAX_RETRIES) is exhausted: return None
            /\ outcome' = [kind |-> "returned_none", answer |-> NoAnswer]
            /\ UNCHANGED <<attempt, sent, slept>>
       ELSE \E ans \in Answers(bodies, attempt + 1) :
            /\ sent' = Append(sent, [args |-> AttemptArgs(call, attempt), answer |-> ans])
            /\ IF ~Caught(ans)
               THEN /\ outcome' = [kind |-> "returned", answer |-> ans]
                    /\ UNCHANGED <<attempt, slept>>
               ELSE IF IsLastAttempt(attempt)
               THEN /\ outcome' = [kind |-> "raised", answer |-> ans]
                    /\ UNCHANGED <<attempt, slept>>
               ELSE /\ slept' = Append(slept, Backoff(attempt))
                    /\ attempt' = attempt + 1
                    /\ UNCHANGED outcome
    /\ UNCHANGED <<MAX_RETRIES, base_url, call>>

(***************************************************************************)
(* migrate.extract_records                                                 *)
(***************************************************************************)
BATCH_SIZE == 50

People == <<"p", "e", "o", "p", "l", "e">>

\* records of the source collection
Rec1 == ("id" :> Text(<<"1">>)) @@ ("name" :> Text(<<"R", "1">>))
Rec2 == ("id" :> Text(<<"2">>))
          @@ ("name" :> Dict(("firstName" :> <<"A">>) @@ ("lastName" :> <<"B">>)))
          @@ ("emails" :> Dict("primaryEmail" :> <<"a", "@", "b">>))
Rec3 == ("id" :> Text(<<"3">>))
          @@ ("xLink" :> Dict("primaryLinkUrl" :> <<"x", ".", "c", "o", "m", "/", "j", ".", "k">>))

\* the opaque cursor naming page k
Token(k) == TextCursor(<<k>>)

\* the page after page k; the last page points back to the first one
NextPage(k) == IF k < MaxPages THEN k + 1 ELSE 1

\* the shapes page k of the collection can have
PageKinds(k) ==
    { Body(AbsentData, Token(NextPage(k))),
      Body(ListData(<<>>), Token(NextPage(k))),
      Body(ListData(<<Rec1>>), NoneCursor),
      Body(ListData(<<Rec1>>), Token(NextPage(k))),
      Body(ListData(<<Rec2, Rec3>>), Token(NextPage(k))),
      Body(ListData(<<Rec2, Rec3>>), TextCursor(<<>>)),
      Body(DictData(People, <<Rec2>>), Token(NextPage(k))),
      Body(DictData(<<"x">>, <<Rec1>>), Token(NextPage(k))) }

\* the page the source serves for the params of a request
PageOf(params) == IF "cursor" \in DOMAIN params THEN params["cursor"].s[1] ELSE 1

\* `if cursor:` / `if not cursor:`
Truthy(c) == ~c.none /\ c.s # <<>>

\* variant of Params that never sends the cursor
Params_NoCursor(c) == ("limit" :> BATCH_SIZE)

\* params = {"limit": BATCH_SIZE}; if cursor: params["cursor"] = cursor
Params(c) ==
    IF Truthy(c) THEN ("limit" :> BATCH_SIZE) @@ ("cursor" :> c)
    ELSE ("limit" :> BATCH_SIZE)

\* endpoint = f"/rest/{object_name}"
Endpoint(object_name) == <<"/", "r", "e", "s", "t", "/">> \o object_name

\* `if not response or 'data' not in response`
LacksData(body) == body.form = "empty" \/ body.data.t = "absent"

\* the batch of a response: data itself when it is a list, data[object_name]
\* when it is a dict, else nothing
BatchOf(body, object_name) ==
    CASE body.data.t = "list" -> body.data.items
      [] body.data.t = "dict" /\ body.data.key = object_name -> body.data.items
      [] OTHER -> <<>>

ExtractUnused ==
    /\ source = <<>>
    /\ xrecords = <<>>
    /\ cursor = NoneCursor
    /\ page = 1
    /\ xpc = "unused"
    /\ asked = <<>>

(***************************************************************************)
(* migrate.execute_migration: payload, write and log                       *)
(***************************************************************************)
\* a value that is not a text, a dict or None: the number written s
Number(s) == [t |-> "int", s |-> s, d |-> NoDict]

\* str(value), for the texts and numbers of the records explored
StrOf(v) == CASE v.t = "str" -> v.s
              [] v.t = "int" -> v.s

\* variant of SplitOnce that splits at the last space
SplitOnce_LastSpace(s) ==
    LET at == {i \in DOMAIN s : s[i] = " "}
    IN IF at = {} THEN <<s>>
       ELSE LET i == CHOOSE i \in at : \A j \in at : j <= i
            IN <<SubSeq(s, 1, i - 1), SubSeq(s, i + 1, Len(s))>>

\* s.split(' ', 1): the parts before and after the first space
SplitOnce(s) ==
    LET at == {i \in DOMAIN s : s[i] = " "}
    IN IF at = {} THEN <<s>>
       ELSE LET i == CHOOSE i \in at : \A j \in at : i <= j
            IN <<SubSeq(s, 1, i - 1), SubSeq(s, i + 1, Len(s))>>

\* a payload value: the one-entry list [{...}] or the source value as it is
One(entry) == [list |-> TRUE, entry |-> entry]
Bare(value) == [list |-> FALSE, entry |-> ("value" :> value)]

NoText == Text(<<>>)

\* target_field == "name"
EncodeName(value) ==
    LET parts == SplitOnce(StrOf(value))
        first_name == parts[1]
        last_name == IF Len(parts) > 1 THEN parts[2] ELSE <<>>
    IN One(("full_name" :> value) @@ ("first_name" :> Text(first_name))
             @@ ("last_name" :> Text(last_name)))

\* target_field == "email_addresses"
EncodeEmail(value) == One("email_address" :> value)

\* variant of EncodeLocation that leaves out the sub-keys without a value
EncodeLocation_Sparse(value) == One(("locality" :> value) @@ ("line_1" :> NoText))

\* target_field == "primary_location"
EncodeLocation(value) ==
    One(("line_1" :> NoText) @@ ("line_2" :> NoText) @@ ("line_3" :> NoText)
          @@ ("line_4" :> NoText) @@ ("locality" :> value) @@ ("region" :> NoText)
          @@ ("postcode" :> NoText) @@ ("country_code" :> NoneValue)
          @@ ("latitude" :> NoneValue) @@ ("longitude" :> NoneValue))

\* the url and social fields, and the fallback for every other field
SocialFields == {"linkedin", "twitter", "facebook", "instagram", "angellist"}
EncodeText(value) == One("value" :> value)
EncodeOther(value) == IF value.t = "str" THEN EncodeText(value) ELSE Bare(value)

\* the if / elif chain over target_field
Encode(target_field, value) ==
    CASE target_field = "name" -> EncodeName(value)
      [] target_field = "email_addresses" -> EncodeEmail(value)
      [] target_field = "primary_location" -> EncodeLocation(value)
      [] target_field \in SocialFields -> EncodeText(value)
      [] OTHER -> EncodeOther(value)

\* record.get(source_field)
GetOrNone(record, field) == IF field \in DOMAIN record THEN record[field] ELSE NoneValue

\* variant of HasValue that lets the empty string through
HasValue_NotNone(value) == value.t # "none"

\* `value is not None and value != ""`
HasValue(value) == value.t # "none" /\ ~(value.t = "str" /\ value.s = <<>>)

NoValues == [k \in {} |-> One("value" :> NoText)]

\* the loop `for source_field, target_field in mapping.items()`
RECURSIVE BuildValues(_, _, _)
BuildValues(record, m, values) ==
    IF m = <<>> THEN values
    ELSE LET source_field == m[1][1]
             target_field == m[1][2]
             value == GetOrNone(record, source_field)
         IN BuildValues(record, Tail(m),
                        IF HasValue(value)
                        THEN Put(values, target_field, Encode(target_field, value))
                        ELSE values)

\* payload = {"values": {...}}
BuildPayload(record, m) == [values |-> BuildValues(record, m, NoValues)]

\* twenty_id = record.get('id', 'unknown')
Unknown == <<"u", "n", "k", "n", "o", "w", "n">>
TwentyId(record) == IF "id" \in DOMAIN record THEN record["id"] ELSE Text(Unknown)

Companies == <<"c", "o", "m", "p", "a", "n", "i", "e", "s">>

\* endpoint = f"/objects/{target_object}/records"
RecordsEndpoint(object) ==
    <<"/", "o", "b", "j", "e", "c", "t", "s", "/">> \o object
        \o <<"/", "r", "e", "c", "o", "r", "d", "s">>

\* variant of IsUpsert that upserts every people record
IsUpsert_AllPeople(object, p) == object = People

\* the upsert is chosen for people whose payload has email_addresses (a
\* one-entry list when present, so never empty)
IsUpsert(object, p) == object = People /\ "email_addresses" \in DOMAIN p.values

WriteMethod(object, p) == IF IsUpsert(object, p) THEN "PUT" ELSE "POST"

\* the keyword arguments of the write: request("PUT", endpoint, json=...,
\* params=...) or post(endpoint, data) = request("POST", endpoint, json=data)
WriteKwargs(object, p) ==
    IF IsUpsert(object, p)
    THEN ("json" :> [data |-> p]) @@ ("params" :> ("matching_attribute" :> "email_addresses"))
    ELSE "json" :> [data |-> p]

\* what the write decides for the log: a success with its target id, or a
\* failure with its message (text: the response text is appended)
NoErr == [msg |-> "", status |-> 0, text |-> FALSE]
NoResponse == [msg |-> "No response or empty response", status |-> 0, text |-> FALSE]
JsonError == [msg |-> "JSONDecodeError", status |-> 0, text |-> FALSE]
\* str(e), with e.response.text appended when the error carries a response
ErrorOf(ans) == [msg |-> ans.kind, status |-> ans.status, text |-> ans.kind = "HTTPError"]
Success(attio_id) == [ok |-> TRUE, attio_id |-> attio_id, error |-> NoErr]
Failure(error) == [ok |-> FALSE, attio_id |-> NoId, error |-> error]

\* the `if response:` block on a requests.Response (the PUT path)
ClassifyResponse(body) ==
    IF body.form = "invalid" THEN Success(Id("upserted-no-content"))
    ELSE IF body.form = "empty" \/ body.data.t = "absent" THEN Success(Id("upserted"))
    ELSE IF body.data.t = "record" THEN Success(body.record_id)
    ELSE Success(Id("upserted-no-content"))

\* the `if response:` block on what APIClient.post returned: the parsed
\* body, a dict, on which response.json() fails inside the bare except
ClassifyParsed(body) ==
    IF body.form = "empty" THEN Failure(NoResponse)
    ELSE Success(Id("upserted-no-content"))

\* the try block of execute_migration from the return of the write
WriteResult(method, out) ==
    CASE out.kind = "raised" -> Failure(ErrorOf(out.answer))
      [] out.kind = "returned_none" -> Failure(NoResponse)
      [] out.kind = "returned" /\ method = "PUT" -> ClassifyResponse(out.answer.body)
      [] out.kind = "returned" /\ method # "PUT" ->
            IF out.answer.body.form = "invalid" THEN Failure(JsonError)
            ELSE ClassifyParsed(out.answer.body)

\* the entries of MigrationLogger.successful_records / failed_records
SuccessEntry(twenty_id, attio_id, p) ==
    [twenty_id |-> twenty_id, attio_id |-> attio_id, values |-> p.values]
ErrorEntry(twenty_id, error, p) ==
    [twenty_id |-> twenty_id, error |-> error, values |-> p.values]

\* variant of log_success that puts the newest entry first
log_success_NewestFirst(twenty_id, attio_id, p) ==
    /\ success_count' = success_count + 1
    /\ successful_records' = <<SuccessEntry(twenty_id, attio_id, p)>> \o successful_records
    /\ UNCHANGED <<error_count, failed_records>>

\* logger.log_success(twenty_id, attio_id, payload)
log_success(twenty_id, attio_id, p) ==
    /\ success_count' = success_count + 1
    /\ successful_records' = Append(successful_records, SuccessEntry(twenty_id, attio_id, p))
    /\ UNCHANGED <<error_count, failed_records>>

\* variant of log_error that keeps only the latest failure
log_error_KeepLatest(twenty_id, error, p) ==
    /\ error_count' = error_count + 1
    /\ failed_records' = <<ErrorEntry(twenty_id, error, p)>>
    /\ UNCHANGED <<success_count, successful_records>>

\* logger.log_error(twenty_id, error_msg, payload)
log_error(twenty_id, error, p) ==
    /\ error_count' = error_count + 1
    /\ failed_records' = Append(failed_records, ErrorEntry(twenty_id, error, p))
    /\ UNCHANGED <<success_count, successful_records>>

MigrateUnused ==
    /\ mrecords = <<>>
    /\ mapping = <<>>
    /\ target_object = <<>>
    /\ dry_run = FALSE
    /\ ri = 1
    /\ payload = [values |-> NoValues]
    /\ success_count = 0
    /\ error_count = 0
    /\ successful_records = <<>>
    /\ failed_records = <<>>
    /\ gpc = "unused"
    /\ written = <<>>

(***************************************************************************)
(* migrate.flatten_record called on its own                                *)
(***************************************************************************)
\* the caller's record after the call: flat = record.copy(), and every
\* write goes to flat
RecordAfter(r, result) == r

\* flatten_record is not part of the run
FlattenUnused ==
    /\ frecord = NoDict
    /\ given = NoDict
    /\ flats = <<>>

(***************************************************************************)
(* migrate: module configuration, check_configuration, test_connections    *)
(***************************************************************************)
TextSettings == {"TWENTY_BASE_URL", "TWENTY_API_KEY", "ATTIO_API_TOKEN"}
NumberSettings == {"BATCH_SIZE", "REQUEST_TIMEOUT", "MAX_RETRIES"}
Settings == TextSettings \cup NumberSettings

\* an environment variable: not set, or set to a text
Unset == [set |-> FALSE, s |-> <<>>]
SetTo(s) == [set |-> TRUE, s |-> s]

\* the second argument of os.getenv for each setting
DefaultOf ==
    [k \in Settings |->
        CASE k = "BATCH_SIZE" -> Number(<<"5", "0">>)
          [] k = "REQUEST_TIMEOUT" -> Number(<<"3", "0">>)
          [] k = "MAX_RETRIES" -> Number(<<"3">>)
          [] OTHER -> Text(<<>>)]

\* os.getenv(k, default)
getenv(env, k) == IF env[k].set THEN Text(env[k].s) ELSE DefaultOf[k]

Digits == {"0", "1", "2", "3", "4", "5", "6", "7", "8", "9"}

\* int(v) raises ValueError: v is a text that is not a number
IntRaises(v) == v.t = "str" /\ (v.s = <<>> \/ \E i \in DOMAIN v.s : v.s[i] \notin Digits)

\* the module constants, when no int() raises
LoadSettings(env) ==
    [k \in Settings |-> IF k \in NumberSettings THEN Number(getenv(env, k).s) ELSE getenv(env, k)]

\* check_configuration(): the settings reported missing
MissingSettings(cfg) == {k \in TextSettings : cfg[k].s = <<>>}

\* the start-up is not part of the run
ConfigUnused ==
    /\ environ = NoDict
    /\ loaded = NoDict
    /\ cpc = "unused"
    /\ clients = 0

(***************************************************************************)
(* migrate.main: records, mapping and confirmation                         *)
(***************************************************************************)
\* the records main() puts in place of an empty extraction
DummyRecords ==
    << ("id" :> Text(<<"1">>)) @@ ("name" :> Text(<<"A", "l", "i", "c", "e", " ", "S", "m", "i", "t", "h">>))
        @@ ("email" :> Text(<<"a", "l", "i", "c", "e", "@", "e", "x", "a", "m", "p", "l", "e", ".", "c", "o", "m">>))
        @@ ("company" :> Text(<<"T", "e", "c", "h", " ", "C", "o", "r", "p">>)),
       ("id" :> Text(<<"2">>)) @@ ("name" :> Text(<<"B", "o", "b", " ", "J", "o", "n", "e", "s">>))
        @@ ("email" :> Text(<<"b", "o", "b", "@", "e", "x", "a", "m", "p", "l", "e", ".", "c", "o", "m">>))
        @@ ("company" :> Text(<<"S", "a", "l", "e", "s", " ", "I", "n", "c">>)),
       ("id" :> Text(<<"3">>)) @@ ("name" :> Text(<<"C", "h", "a", "r", "l", "i", "e", " ", "D", "a", "y">>))
        @@ ("email" :> Text(<<"c", "h", "a", "r", "l", "i", "e", "@", "e", "x", "a", "m", "p", "l", "e", ".", "c", "o", "m">>))
        @@ ("company" :> Text(<<"M", "e", "d", "i", "a", " ", "L", "t", "d">>)) >>

\* configure_field_mapping(records, 'people')
configure_field_mapping(recs) ==
    IF recs = <<>> THEN <<>>
    ELSE << <<"name_full", "name">>, <<"email_primary", "email_addresses">>,
            <<"jobTitle", "job_title">>, <<"city", "primary_location">>,
            <<"linkedin_url", "linkedin">>, <<"x_url", "twitter">> >>

\* `if not records:` with the dummy data accepted
RecordsFor(recs) == IF recs = <<>> THEN DummyRecords ELSE recs

\* main() is not part of the run
MainUnused ==
    /\ extracted = <<>>
    /\ answers = [dummy |-> FALSE, start |-> FALSE]
    /\ npc = "unused"

(***************************************************************************)
(* merge_duplicates.fetch_all_companies and find_duplicates.               *)
(* fetch_all_records: the offset loop, with FetchLimit as the page size    *)
(***************************************************************************)
\* the answer of the target to a query with limit and offset: the records
\* after the first `off`, at most `lim` of them
QueryPage(all, off, lim) ==
    SubSeq(all, off + 1, IF Len(all) < off + lim THEN Len(all) ELSE off + lim)

\* variant of AfterBatch that stops only at an empty batch
AfterBatch_UntilEmpty(batch) == IF batch = <<>> THEN "done" ELSE "loop"

\* `if len(batch) < limit: break`
AfterBatch(batch) == IF Len(batch) < FetchLimit THEN "done" ELSE "loop"

\* the fetch loop is not part of the run
FetchUnused ==
    /\ stored = <<>>
    /\ object_slug = ""
    /\ collected = <<>>
    /\ offset = 0
    /\ payloads = <<>>
    /\ fetch_failed = FALSE
    /\ qpc = "unused"

(***************************************************************************)
(* find_duplicates.process_people                                          *)
(*                                                                         *)
(* A fetched person has a record id, the values of its `name` attribute,   *)
(* the values of its `email_addresses` attribute and a creation time.      *)
(***************************************************************************)
UnknownName == <<"U", "n", "k", "n", "o", "w", "n">>

\* full_name: name_vals[0].get('full_name', 'Unknown'), 'Unknown' without name
FullName(r) == IF r.name_vals = <<>> THEN UnknownName ELSE r.name_vals[1]

\* `if addr:` for addr = e.get('email_address')
HasAddress(e) == e.t = "str" /\ e.s # <<>>

\* emails: the lowercase addresses of the record, in order
PersonEmails(r) ==
    LET held == SelectSeq(r.email_vals, HasAddress)
    IN [i \in DOMAIN held |-> lower(held[i].s)]

\* the entry appended to email_map[e]
PersonEntry(r) ==
    [id |-> r.id, name |-> FullName(r), emails |-> PersonEmails(r),
     created_at |-> r.created_at]

\* the appends to email_map in program order: for every record, one per
\* entry of its emails
RECURSIVE EmailAppends(_)
EmailAppends(recs) ==
    IF recs = <<>> THEN <<>>
    ELSE [i \in DOMAIN PersonEmails(recs[1]) |->
             [email |-> PersonEmails(recs[1])[i], entry |-> PersonEntry(recs[1])]]
         \o EmailAppends(Tail(recs))

\* keys of email_map in insertion order
RECURSIVE EmailKeys(_)
EmailKeys(appends) ==
    IF appends = <<>> THEN <<>>
    ELSE LET front == EmailKeys(SubSeq(appends, 1, Len(appends) - 1))
             e == appends[Len(appends)].email
         IN IF e \in Range(front) THEN front ELSE Append(front, e)

\* email_map[e]
EmailGroup(appends, e) ==
    LET At(a) == a.email = e
    IN [i \in DOMAIN SelectSeq(appends, At) |-> SelectSeq(appends, At)[i].entry]

\* process_people(records): {e: recs for e, recs in email_map.items() if len(recs) > 1}
process_people(recs) ==
    LET appends == EmailAppends(recs)
        keys == EmailKeys(appends)
        groups == [i \in DOMAIN keys |->
                     [email |-> keys[i], recs |-> EmailGroup(appends, keys[i])]]
        Keep(g) == Len(g.recs) > 1
    IN SelectSeq(groups, Keep)

\* process_people is not part of the run
FindUnused ==
    /\ fetched = <<>>
    /\ dup_people = <<>>
    /\ fpc = "unused"

(***************************************************************************)
(* find_duplicates.process_companies                                       *)
(*                                                                         *)
(* A fetched company has a record id, the values of its `name` attribute   *)
(* (each the `value` of an entry: a text or None), the values of its       *)
(* `domains` attribute and a creation time.                                *)
(***************************************************************************)
\* name: name_vals[0].get('value', 'Unknown'), 'Unknown' without name values
CompanyName(r) == IF r.name_vals = <<>> THEN Text(UnknownName) ELSE r.name_vals[1]

\* `if name and name != "Unknown"`
IsNamed(name) == name.t = "str" /\ name.s # <<>> /\ name.s # UnknownName

\* domains: the lowercase domains of the record, in order (`if dom:`)
CompanyDomains(r) ==
    LET held == SelectSeq(r.domain_vals, HasAddress)
    IN [i \in DOMAIN held |-> lower(held[i].s)]

\* the entry appended to domain_map[d] and to name_map[name.lower()]
CompanyEntry(r) ==
    [id |-> r.id, name |-> CompanyName(r), domains |-> CompanyDomains(r),
     created_at |-> r.created_at]

\* the appends to domain_map in program order: for every record, one per
\* entry of its domains
RECURSIVE DomainAppends(_)
DomainAppends(recs) ==
    IF recs = <<>> THEN <<>>
    ELSE [i \in DOMAIN CompanyDomains(recs[1]) |->
             [key |-> CompanyDomains(recs[1])[i], entry |-> CompanyEntry(recs[1])]]
         \o DomainAppends(Tail(recs))

\* the appends to name_map in program order: one per named record
RECURSIVE NameAppends(_)
NameAppends(recs) ==
    IF recs = <<>> THEN <<>>
    ELSE (IF IsNamed(CompanyName(recs[1]))
          THEN <<[key |-> lower(CompanyName(recs[1]).s), entry |-> CompanyEntry(recs[1])]>>
          ELSE <<>>)
         \o NameAppends(Tail(recs))

\* keys of a defaultdict(list) in insertion order
RECURSIVE MapKeys(_)
MapKeys(appends) ==
    IF appends = <<>> THEN <<>>
    ELSE LET front == MapKeys(SubSeq(appends, 1, Len(appends) - 1))
             k == appends[Len(appends)].key
         IN IF k \in Range(front) THEN front ELSE Append(front, k)

\* the list under key k
MapGroup(appends, k) ==
    LET At(a) == a.key = k
    IN [i \in DOMAIN SelectSeq(appends, At) |-> SelectSeq(appends, At)[i].entry]

\* {k: recs for k, recs in m.items() if len(recs) > 1}
MoreThanOne(appends) ==
    LET keys == MapKeys(appends)
        groups == [i \in DOMAIN keys |->
                     [key |-> keys[i], recs |-> MapGroup(appends, keys[i])]]
        Keep(g) == Len(g.recs) > 1
    IN SelectSeq(groups, Keep)

\* process_companies(records): dup_domains, dup_names
process_companies(recs) ==
    [dup_domains |-> MoreThanOne(DomainAppends(recs)),
     dup_names |-> MoreThanOne(NameAppends(recs))]

\* process_companies is not part of the run
CompanyUnused ==
    /\ cfetched = <<>>
    /\ dup_domains = <<>>
    /\ dup_names = <<>>
    /\ mduplicates = <<>>
    /\ kpc = "unused"

(***************************************************************************)
(* The target system (Attio) as seen by the merge run                      *)
(***************************************************************************)
CompanyNames == {<<"A", "b">>, <<"a", "b">>, <<"X">>}
DomainSets == {{"a.com"}, {"b.com"}, {"a.com", "c.com"}}

\* the domains of the records: any choice for the first records, repeated
\* with the period Cardinality(DomainSets) for the records after them
DomainAssignments(n) ==
    LET p == Cardinality(DomainSets)
    IN {[i \in 1..n |-> base[((i - 1) % p) + 1]] : base \in [1..p -> DomainSets]}

\* creation order of the records relative to their ids: the reverse of the
\* id order, or all created at the same instant
CreatedAtPatterns(n) ==
    {[i \in 1..n |-> n + 1 - i], [i \in 1..n |-> 1]}

\* position of record id in the answer of a query sorted by created_at asc
\* (ties in id order)
QueryRank(t, id) ==
    Cardinality({j \in DOMAIN t :
        /\ t[j].alive
        /\ \/ t[j].created_at < t[id].created_at
           \/ t[j].created_at = t[id].created_at /\ j <= id})

\* POST /objects/companies/records/query, sort asc by created_at: all live
\* records
QueryAll(t) ==
    [k \in 1..Cardinality({i \in DOMAIN t : t[i].alive}) |->
        LET id == CHOOSE i \in DOMAIN t : t[i].alive /\ QueryRank(t, i) = k
        IN [id |-> id, name |-> t[id].name, domains |-> t[id].domains,
            created_at |-> t[id].created_at]]

Min(a, b) == IF a < b THEN a ELSE b

\* fetch_all_companies: pages of FetchLimit records are appended until a short
\* page arrives; a failing request ends the loop with what was accumulated.
\* `failAt` is the number of the failing request (0: none fails).
fetch_all_companies(t, failAt) ==
    LET all == QueryAll(t)
        n == Len(all)
        needed == (n \div FetchLimit) + 1
        got == IF failAt = 0 \/ failAt > needed THEN n
               ELSE Min(n, (failAt - 1) * FetchLimit)
    IN SubSeq(all, 1, got)

(***************************************************************************)
(* merge_duplicates.main: grouping                                         *)
(***************************************************************************)
\* the summary main() keeps of a fetched record
Summary(r) == [id |-> r.id, name |-> r.name, domains |-> r.domains,
               created_at |-> r.created_at]

\* keys of name_map in insertion order: a key is inserted when its first
\* record is seen; records without a name are skipped
RECURSIVE KeysInOrder(_)
KeysInOrder(recs) ==
    IF recs = <<>> THEN <<>>
    ELSE LET front == KeysInOrder(SubSeq(recs, 1, Len(recs) - 1))
             r == recs[Len(recs)]
         IN IF r.name = <<>> \/ lower(r.name) \in Range(front) THEN front
            ELSE Append(front, lower(r.name))

\* name_map[key]: the summaries of the records with that lowercase name, in
\* fetch order
NameGroup(recs, key) ==
    LET Member(r) == r.name # <<>> /\ lower(r.name) = key
    IN [i \in DOMAIN SelectSeq(recs, Member) |-> Summary(SelectSeq(recs, Member)[i])]

\* the size test of the `duplicates` filter
IsDuplicateGroup(recs) == Len(recs) > 1

\* duplicates = {n: recs for n, recs in name_map.items() if len(recs) > 1}
Duplicates(recs) ==
    LET keys == KeysInOrder(recs)
        groups == [i \in DOMAIN keys |-> [name |-> keys[i], recs |-> NameGroup(recs, keys[i])]]
        Keep(g) == IsDuplicateGroup(g.recs)
    IN SelectSeq(groups, Keep)

\* recs.sort(key=lambda x: x['created_at']): stable insertion into a sorted prefix
RECURSIVE SortByCreatedAt(_)
SortByCreatedAt(recs) ==
    IF recs = <<>> THEN <<>>
    ELSE LET front == SortByCreatedAt(SubSeq(recs, 1, Len(recs) - 1))
             r == recs[Len(recs)]
             k == Cardinality({i \in DOMAIN front : front[i].created_at <= r.created_at})
         IN SubSeq(front, 1, k) \o <<r>> \o SubSeq(front, k + 1, Len(front))

\* variant of MasterOf that takes the last record of the sorted group
MasterOf_Last(recs) == SortByCreatedAt(recs)[Len(recs)]

\* master = recs[0]
MasterOf(recs) == SortByCreatedAt(recs)[1]

\* variant of OthersOf that takes one record only
OthersOf_FirstOnly(recs) == SubSeq(SortByCreatedAt(recs), 2, 2)

\* others = recs[1:]
OthersOf(recs) == Tail(SortByCreatedAt(recs))

\* variant of AllDomains that forgets the master's own domains
AllDomains_OthersOnly(m, os) == UNION {os[i].domains : i \in DOMAIN os}

\* variant of AllDomains that reads the domains the records hold on the target
\* when the group is entered
AllDomains_Live(m, os) ==
    target[m.id].domains \cup UNION {target[os[i].id].domains : i \in DOMAIN os}

\* all_domains = set(master['domains']); all_domains.update(o['domains'])
AllDomains(m, os) == m.domains \cup UNION {os[i].domains : i \in DOMAIN os}

NoRecord == [id |-> 0, name |-> <<>>, domains |-> {}, created_at |-> 0]

\* the merge run is not part of the run
MergeUnused ==
    /\ target = <<>>
    /\ records = <<>>
    /\ duplicates = <<>>
    /\ gi = 1
    /\ master = NoRecord
    /\ others = <<>>
    /\ final_domains = {}
    /\ oi = 1
    /\ mpc = "unused"
    /\ issued = <<>>
    /\ begun = <<>>

(***************************************************************************)
(* merge_duplicates.main: the run                                          *)
(***************************************************************************)
InitMerge ==
    /\ \E names \in [1..MaxRecs -> CompanyNames],
          doms \in DomainAssignments(MaxRecs),
          created \in CreatedAtPatterns(MaxRecs) :
          target = [id \in 1..MaxRecs |->
                      [name |-> names[id], domains |-> doms[id],
                       created_at |-> created[id], alive |-> TRUE]]
    /\ records = <<>>
    /\ duplicates = <<>>
    /\ gi = 1
    /\ master = NoRecord
    /\ others = <<>>
    /\ final_domains = {}
    /\ oi = 1
    /\ mpc = "start"
    /\ issued = <<>>
    /\ begun = <<>>
    /\ ClientUnused
    /\ ExtractUnused
    /\ MigrateUnused
    /\ FindUnused
    /\ FlattenUnused
    /\ ConfigUnused
    /\ CompanyUnused
    /\ MainUnused
    /\ FetchUnused

\* main(), up to the merge loop: token check, fetch, grouping, filter
Main_Fetch ==
    /\ mpc = "start"
    /\ \E token \in BOOLEAN, failAt \in 0..((MaxRecs \div FetchLimit) + 1) :
          IF ~token
          THEN /\ mpc' = "done"
               /\ UNCHANGED <<records, duplicates>>
          ELSE /\ records' = fetch_all_companies(target, failAt)
               /\ duplicates' = Duplicates(records')
               /\ mpc' = "loop"
    /\ UNCHANGED <<target, gi, master, others, final_domains, oi, issued, begun>>
    /\ UNCHANGED notMerge

\* head of `for name, recs in duplicates.items()`: sort, master, others,
\* consolidated domains; or the end of main()
Main_NextGroup ==
    /\ mpc = "loop"
    /\ IF gi > Len(duplicates)
       THEN /\ mpc' = "done"
            /\ UNCHANGED <<master, others, final_domains, oi, begun>>
       ELSE /\ master' = MasterOf(duplicates[gi].recs)
            /\ others' = OthersOf(duplicates[gi].recs)
            /\ final_domains' = AllDomains(master', others')
            /\ oi' = 1
            /\ begun' = Append(begun, gi)
            /\ mpc' = "delete"
    /\ UNCHANGED <<target, records, duplicates, gi, issued>>
    /\ UNCHANGED notMerge

\* the target's effect of a successful DELETE of a record
TargetDelete(t, id) == [t EXCEPT ![id].alive = FALSE]

\* the target's effect of a successful PATCH of the domains of a record
TargetPatch(t, id, doms) == [t EXCEPT ![id].domains = doms]

\* variants of AfterDelete with a slip in the abort logic
AfterDelete_NoAbort(ok, last) == IF last THEN "update" ELSE "delete"

AfterDelete_UpdateEarly(ok, last) == IF ~ok THEN "loop" ELSE "update"

AfterDelete_UpdateAfterBreak(ok, last) ==
    IF ~ok THEN "update" ELSE IF last THEN "update" ELSE "delete"

AfterDelete_StopRun(ok, last) ==
    IF ~ok THEN "done" ELSE IF last THEN "update" ELSE "delete"

\* control point after delete_record() returned `ok` for others[oi]:
\* a failure leaves the delete loop and skips the update (`break`, `continue`)
AfterDelete(ok, last) ==
    IF ~ok THEN "loop" ELSE IF last THEN "update" ELSE "delete"

\* one pass of `for o in others`: delete_record(o['id'])
Main_Delete ==
    /\ mpc = "delete"
    /\ \E ok \in BOOLEAN :
          /\ issued' = Append(issued, [op |-> "DELETE", id |-> others[oi].id,
                                        ok |-> ok, group |-> gi])
          /\ target' = IF ok THEN TargetDelete(target, others[oi].id) ELSE target
          /\ mpc' = AfterDelete(ok, oi = Len(others))
          /\ oi' = IF ok THEN oi + 1 ELSE oi
          /\ gi' = IF mpc' = "loop" THEN gi + 1 ELSE gi
    /\ UNCHANGED <<records, duplicates, master, others, final_domains, begun>>
    /\ UNCHANGED notMerge

\* update_company_domains(master['id'], final_domains), then the next group
Main_Update ==
    /\ mpc = "update"
    /\ \E ok \in BOOLEAN :
          /\ issued' = Append(issued, [op |-> "PATCH", id |-> master.id,
                                        ok |-> ok, group |-> gi])
          /\ target' = IF ok THEN TargetPatch(target, master.id, final_domains)
                       ELSE target
    /\ gi' = gi + 1
    /\ mpc' = "loop"
    /\ UNCHANGED <<records, duplicates, master, others, final_domains, oi, begun>>
    /\ UNCHANGED notMerge

NextMerge ==
    \/ Main_Fetch
    \/ Main_NextGroup
    \/ Main_Delete
    \/ Main_Update

SpecMerge == InitMerge /\ [][NextMerge]_vars

(***************************************************************************)
(* merge_duplicates.main next to another actor that edits the target       *)
(***************************************************************************)
\* a domain no record holds when the run starts
NewDomain == "z.com"

StaleNames == {<<"A", "b">>, <<"a", "b">>}

InitMergeStale ==
    /\ \E names \in [1..MaxRecs -> StaleNames],
          doms \in DomainAssignments(MaxRecs),
          created \in CreatedAtPatterns(MaxRecs) :
          target = [id \in 1..MaxRecs |->
                      [name |-> names[id], domains |-> doms[id],
                       created_at |-> created[id], alive |-> TRUE]]
    /\ records = <<>>
    /\ duplicates = <<>>
    /\ gi = 1
    /\ master = NoRecord
    /\ others = <<>>
    /\ final_domains = {}
    /\ oi = 1
    /\ mpc = "start"
    /\ issued = <<>>
    /\ begun = <<>>
    /\ ClientUnused
    /\ ExtractUnused
    /\ MigrateUnused
    /\ FindUnused
    /\ FlattenUnused
    /\ ConfigUnused
    /\ CompanyUnused
    /\ MainUnused
    /\ FetchUnused

\* after the fetch, another user of the target adds NewDomain to a live record
Other_Actor ==
    /\ mpc \in {"loop", "delete", "update"}
    /\ \A id \in DOMAIN target : NewDomain \notin target[id].domains
    /\ \E id \in DOMAIN target :
          /\ target[id].alive
          /\ target' = [target EXCEPT ![id].domains = @ \cup {NewDomain}]
    /\ UNCHANGED <<records, duplicates, gi, master, others, final_domains, oi,
                   mpc, issued, begun>>
    /\ UNCHANGED notMerge

NextMergeStale ==
    \/ Main_Fetch
    \/ Main_NextGroup
    \/ Main_Delete
    \/ Main_Update
    \/ Other_Actor

SpecMergeStale == InitMergeStale /\ [][NextMergeStale]_vars

(***************************************************************************)
(* APIClient.request called directly                                       *)
(***************************************************************************)
Methods == {"GET", "POST", "PUT"}
Endpoints == {<<"r">>, <<"/", "r">>}
KwargsChoices == {NoKwargs, "timeout" :> 5, "params" :> 1}

InitClient ==
    /\ ClientInit(-1..MaxRetriesBound)
    /\ MergeUnused
    /\ ExtractUnused
    /\ MigrateUnused
    /\ FindUnused
    /\ FlattenUnused
    /\ ConfigUnused
    /\ CompanyUnused
    /\ MainUnused
    /\ FetchUnused

Client_Call ==
    /\ outcome.kind = "idle"
    /\ \E m \in Methods, e \in Endpoints, kw \in KwargsChoices : Enter(m, e, kw)
    /\ UNCHANGED notClient

Client_Attempt ==
    /\ Attempt({Body(ScalarData, NoneCursor)})
    /\ UNCHANGED notClient

NextClient ==
    \/ Client_Call
    \/ Client_Attempt

SpecClient == InitClient /\ [][NextClient]_vars

(***************************************************************************)
(* extract_records(client, "people") on a source of MaxPages pages         *)
(***************************************************************************)
\* MAX_RETRIES settings of the extraction runs: no attempt at all, a single
\* attempt, one retry
ExtractRetries == 0..2

InitExtract ==
    /\ ClientInit(ExtractRetries)
    /\ MergeUnused
    /\ MigrateUnused
    /\ source \in {pages \in [1..MaxPages -> UNION {PageKinds(k) : k \in 1..MaxPages}] :
                      \A k \in 1..MaxPages : pages[k] \in PageKinds(k)}
    /\ xrecords = <<>>
    /\ cursor = NoneCursor
    /\ page = 1
    /\ xpc = "loop"
    /\ asked = <<>>
    /\ FindUnused
    /\ FlattenUnused
    /\ ConfigUnused
    /\ CompanyUnused
    /\ MainUnused
    /\ FetchUnused

\* head of `while True`: response = client.get(endpoint, params=params).
\* A source that never ends makes the loop endless; the model follows it for
\* MaxPages + 1 requests.
Extract_Get ==
    /\ xpc = "loop"
    /\ page <= MaxPages + 1
    /\ Enter("GET", Endpoint(People), "params" :> Params(cursor))
    /\ asked' = Append(asked, Params(cursor))
    /\ xpc' = "get"
    /\ UNCHANGED <<source, xrecords, cursor, page>>
    /\ UNCHANGED notExtract

\* the retry loop of the request behind client.get
Extract_Attempt ==
    /\ xpc = "get"
    /\ Attempt({source[PageOf(call.kwargs["params"])]})
    /\ UNCHANGED extractVars
    /\ UNCHANGED notExtract

\* variant of AfterPage that never asks for a second page
AfterPage_OnePage(next) == "done"

\* variant of AfterPage that goes on whatever the cursor is
AfterPage_IgnoreCursor(next) == "loop"

\* control point after a page was appended: the loop goes on while the
\* response names a next cursor
AfterPage(next) == IF Truthy(next) THEN "loop" ELSE "done"

\* control point when the request behind client.get raised: nothing in
\* extract_records catches the error
AfterRaise == "raised"

\* the rest of the loop body, from the return of client.get
Extract_Page ==
    /\ xpc = "get"
    /\ outcome.kind \in {"returned", "raised", "returned_none"}
    /\ IF outcome.kind = "raised"
          \/ (outcome.kind = "returned" /\ outcome.answer.body.form = "invalid")
       THEN /\ xpc' = AfterRaise
            /\ UNCHANGED <<xrecords, cursor, page>>
       ELSE IF outcome.kind = "returned_none" \/ LacksData(outcome.answer.body)
       THEN /\ xpc' = "done"
            /\ UNCHANGED <<xrecords, cursor, page>>
       ELSE IF BatchOf(outcome.answer.body, People) = <<>>
       THEN /\ xpc' = "done"
            /\ UNCHANGED <<xrecords, cursor, page>>
       ELSE /\ xrecords' = xrecords \o FlattenBatch(BatchOf(outcome.answer.body, People))
            /\ cursor' = outcome.answer.body.next_cursor
            /\ xpc' = AfterPage(cursor')
            /\ page' = IF xpc' = "loop" THEN page + 1 ELSE page
    /\ UNCHANGED <<source, asked>>
    /\ UNCHANGED clientVars
    /\ UNCHANGED notExtract

NextExtract ==
    \/ Extract_Get
    \/ Extract_Attempt
    \/ Extract_Page

SpecExtract == InitExtract /\ [][NextExtract]_vars

(***************************************************************************)
(* execute_migration(attio_client, records, mapping, target_object,        *)
(* logger, dry_run) on at most MaxBatch flat records                       *)
(***************************************************************************)
\* flat records: a person with name, email and city; a record with a plain
\* name and no email; a record without id, with a number and a None
PersonRec == Put(flatten_record(Rec2), "city", Text(<<"P">>))
PlainRec == flatten_record(Rec1)
NoIdRec ==
    ("name_full" :> Text(<<"C", " ", "D", " ", "E">>)) @@ ("employees" :> Number(<<"7">>))
        @@ ("city" :> NoneValue) @@ ("email_primary" :> NoText)
FlatRecs == {PersonRec, PlainRec, NoIdRec}

\* the record of test_execute_migration_live, handed over as it is
AliceRec == ("id" :> Text(<<"1">>)) @@ ("name" :> Text(<<"A", "l", "i", "c", "e">>))

\* a record whose name starts and ends with a space
SpacedRec == ("id" :> Text(<<"3">>)) @@ ("name" :> Text(<<" ", "x", " ">>))

\* the built-in mapping of configure_field_mapping for people
PeopleMapping ==
    << <<"name_full", "name">>, <<"email_primary", "email_addresses">>,
       <<"jobTitle", "job_title">>, <<"city", "primary_location">>,
       <<"linkedin_url", "linkedin">>, <<"x_url", "twitter">> >>

\* a mapping confirmed by hand
CustomMapping ==
    << <<"name_full", "name">>, <<"employees", "employees">>, <<"city", "city">> >>

\* the mapping of test_execute_migration_live
NameMapping == << <<"name", "name">> >>

\* the runs: mapping, target_object and the records the batch is drawn
\* from (the name mapping is run on records whose name is a text)
Runs ==
    { <<PeopleMapping, People, FlatRecs>>, <<CustomMapping, People, FlatRecs>>,
      <<CustomMapping, Companies, FlatRecs>>,
      <<NameMapping, People, {AliceRec, PlainRec, SpacedRec}>> }

\* the bodies the target may answer a write with
TargetBodies ==
    { RecordBody(Id("attio_1")), RecordBody(NoId), Body(AbsentData, NoneCursor),
      EmptyJson, NotJson }

MigrateRetries == 0..2

InitMigrate ==
    /\ ClientInit(MigrateRetries)
    /\ MergeUnused
    /\ ExtractUnused
    /\ \E run \in Runs :
          /\ mapping = run[1]
          /\ target_object = run[2]
          /\ mrecords \in UNION {[1..n -> run[3]] : n \in 1..MaxBatch}
    /\ dry_run \in BOOLEAN
    /\ ri = 1
    /\ payload = [values |-> NoValues]
    /\ success_count = 0
    /\ error_count = 0
    /\ successful_records = <<>>
    /\ failed_records = <<>>
    /\ gpc = "loop"
    /\ written = <<>>
    /\ FindUnused
    /\ FlattenUnused
    /\ ConfigUnused
    /\ CompanyUnused
    /\ MainUnused
    /\ FetchUnused

\* variant of AfterRecord that ends the batch with the first record
AfterRecord_StopAtFirst(i) == "done"

\* control point after the record at position i was logged
AfterRecord(i) == IF i < Len(mrecords) THEN "loop" ELSE "done"

\* variant of AfterPayload that writes in a dry run too
AfterPayload_AlwaysWrite(dry) == "write"

\* control point after the payload was built: `if dry_run:`
AfterPayload(dry) == IF dry THEN "logged" ELSE "write"

\* head of the loop body: the payload is built; a dry run logs and goes on,
\* a live run enters the write
Migrate_Record ==
    /\ gpc = "loop"
    /\ payload' = BuildPayload(mrecords[ri], mapping)
    /\ IF AfterPayload(dry_run) = "logged"
       THEN /\ log_success(TwentyId(mrecords[ri]), Id("dry-run-id"), payload')
            /\ ri' = ri + 1
            /\ gpc' = AfterRecord(ri)
            /\ UNCHANGED clientVars
            /\ UNCHANGED written
       ELSE /\ Enter(WriteMethod(target_object, payload'), RecordsEndpoint(target_object),
                     WriteKwargs(target_object, payload'))
            /\ gpc' = "write"
            /\ written' = Append(written, [record |-> ri, call |-> call'])
            /\ UNCHANGED <<ri, success_count, error_count, successful_records,
                           failed_records>>
    /\ UNCHANGED <<mrecords, mapping, target_object, dry_run>>
    /\ UNCHANGED notMigrate

\* the retry loop of the request behind the write
Migrate_Attempt ==
    /\ gpc = "write"
    /\ Attempt(TargetBodies)
    /\ UNCHANGED migrateVars
    /\ UNCHANGED notMigrate

\* the rest of the loop body, from the return of the write
Migrate_Result ==
    /\ gpc = "write"
    /\ outcome.kind \in {"returned", "raised", "returned_none"}
    /\ LET result == WriteResult(call.method, outcome)
       IN IF result.ok
          THEN log_success(TwentyId(mrecords[ri]), result.attio_id, payload)
          ELSE log_error(TwentyId(mrecords[ri]), result.error, payload)
    /\ ri' = ri + 1
    /\ gpc' = AfterRecord(ri)
    /\ UNCHANGED <<mrecords, mapping, target_object, dry_run, payload, written>>
    /\ UNCHANGED clientVars
    /\ UNCHANGED notMigrate

NextMigrate ==
    \/ Migrate_Record
    \/ Migrate_Attempt
    \/ Migrate_Result

SpecMigrate == InitMigrate /\ [][NextMigrate]_vars

(***************************************************************************)
(* main() for the people object: from the return of extract_records to    *)
(* the end of execute_migration                                            *)
(***************************************************************************)
\* what the extraction can return: the flattened records of the source
\* pages, at most MaxBatch of them
Extractions ==
    UNION {[1..n -> {flatten_record(Rec1), flatten_record(Rec2)}] : n \in 0..MaxBatch}

InitMain ==
    /\ ClientInit(1..2)
    /\ extracted \in Extractions
    /\ answers \in [dummy : BOOLEAN, start : BOOLEAN]
    /\ npc = "extracted"
    /\ mrecords = <<>>
    /\ mapping = <<>>
    /\ target_object = People
    /\ dry_run \in BOOLEAN
    /\ ri = 1
    /\ payload = [values |-> NoValues]
    /\ success_count = 0
    /\ error_count = 0
    /\ successful_records = <<>>
    /\ failed_records = <<>>
    /\ gpc = "main"
    /\ written = <<>>
    /\ MergeUnused
    /\ ExtractUnused
    /\ FindUnused
    /\ FlattenUnused
    /\ ConfigUnused
    /\ CompanyUnused
    /\ FetchUnused

\* main(), steps 4 to 7: dummy records for an empty extraction unless
\* declined, the mapping, all records selected, the last confirmation
Main_Prepare ==
    /\ npc = "extracted"
    /\ IF extracted = <<>> /\ ~answers.dummy
       THEN /\ npc' = "aborted"
            /\ UNCHANGED <<mrecords, mapping, gpc>>
       ELSE /\ mapping' = configure_field_mapping(RecordsFor(extracted))
            /\ IF answers.start
               THEN /\ mrecords' = RecordsFor(extracted)
                    /\ npc' = "executing"
                    /\ gpc' = "loop"
               ELSE /\ npc' = "cancelled"
                    /\ UNCHANGED <<mrecords, gpc>>
    /\ UNCHANGED <<extracted, answers>>
    /\ UNCHANGED <<target_object, dry_run, ri, payload, success_count, error_count,
                   successful_records, failed_records, written>>
    /\ UNCHANGED <<mergeVars, clientVars, extractVars, findVars, flattenVars,
                   configVars, companyVars, fetchVars>>

NextMain ==
    \/ Main_Prepare
    \/ Migrate_Record
    \/ Migrate_Attempt
    \/ Migrate_Result

SpecMain == InitMain /\ [][NextMain]_vars

(***************************************************************************)
(* One fetch of all records of an object holding at most MaxHeld records   *)
(***************************************************************************)
\* the fetches: fetch_all_companies() of the merge, fetch_all_records of the
\* report for people and for companies
Fetches == {"merge:companies", "people", "companies"}

InitFetch ==
    /\ \E n \in 0..MaxHeld : stored = [i \in 1..n |-> i]
    /\ object_slug \in Fetches
    /\ collected = <<>>
    /\ offset = 0
    /\ payloads = <<>>
    /\ fetch_failed = FALSE
    /\ qpc = "loop"
    /\ MergeUnused
    /\ ClientUnused
    /\ ExtractUnused
    /\ MigrateUnused
    /\ FindUnused
    /\ FlattenUnused
    /\ ConfigUnused
    /\ CompanyUnused
    /\ MainUnused

\* one pass of `while True`: the request, then either the except clause
\* (break with what was accumulated) or the batch is appended
Fetch_Page ==
    /\ qpc = "loop"
    /\ payloads' = Append(payloads, [limit |-> FetchLimit, offset |-> offset])
    /\ \E raised \in BOOLEAN :
          IF raised
          THEN /\ fetch_failed' = TRUE
               /\ qpc' = "done"
               /\ UNCHANGED <<collected, offset>>
          ELSE LET batch == QueryPage(stored, offset, FetchLimit)
               IN /\ collected' = collected \o batch
                  /\ qpc' = AfterBatch(batch)
                  /\ offset' = IF qpc' = "loop" THEN offset + FetchLimit ELSE offset
                  /\ UNCHANGED fetch_failed
    /\ UNCHANGED <<stored, object_slug>>
    /\ UNCHANGED notFetch

NextFetch == Fetch_Page

SpecFetch == InitFetch /\ [][NextFetch]_vars

(***************************************************************************)
(* process_people(records) on at most MaxPeople fetched people             *)
(***************************************************************************)
MailA == <<"a", "@", "b">>
MailUpperA == <<"A", "@", "B">>
MailX == <<"x", "@", "b">>

\* the email_addresses values a fetched person can have
EmailValues ==
    { <<>>, <<Text(MailA)>>, <<Text(MailUpperA)>>, <<Text(MailX)>>,
      <<Text(MailA), Text(MailUpperA)>>, <<Text(MailA), Text(MailX)>>,
      <<NoneValue>> }

\* person number i with the given email values; the first has no name
Person(i, emails) ==
    [id |-> i, name_vals |-> IF i = 1 THEN <<>> ELSE <<<<"P">>>>,
     email_vals |-> emails, created_at |-> i]

InitFind ==
    /\ \E n \in 0..MaxPeople : \E emails \in [1..n -> EmailValues] :
          fetched = [i \in 1..n |-> Person(i, emails[i])]
    /\ dup_people = <<>>
    /\ fpc = "start"
    /\ MergeUnused
    /\ ClientUnused
    /\ ExtractUnused
    /\ MigrateUnused
    /\ FlattenUnused
    /\ ConfigUnused
    /\ CompanyUnused
    /\ MainUnused
    /\ FetchUnused

\* process_people(records), from call to return
Find_People ==
    /\ fpc = "start"
    /\ dup_people' = process_people(fetched)
    /\ fpc' = "done"
    /\ UNCHANGED fetched
    /\ UNCHANGED notFind

NextFind == Find_People

SpecFind == InitFind /\ [][NextFind]_vars

(***************************************************************************)
(* process_companies(records) and the grouping of merge_duplicates.main    *)
(* on the same fetched companies, at most MaxCompanies of them             *)
(***************************************************************************)
DomA == <<"a", ".", "c">>
DomUpperA == <<"A", ".", "c">>
DomX == <<"x", ".", "c">>

\* the name and domains values a fetched company can have
CompanyNameValues ==
    { <<>>, <<Text(<<"A", "b">>)>>, <<Text(<<"a", "b">>)>>, <<Text(UnknownName)>>,
      <<NoneValue>> }
CompanyDomainValues ==
    { <<>>, <<Text(DomA)>>, <<Text(DomA), Text(DomUpperA)>>, <<Text(DomX)>> }

Company(i, names, doms) ==
    [id |-> i, name_vals |-> names, domain_vals |-> doms, created_at |-> i]

\* what merge_duplicates.main keeps of a fetched company: name is
\* name_vals[0].get('value') or None (<<>>: `not name`), domains as held
FetchedCompany(r) ==
    LET held == SelectSeq(r.domain_vals, HasAddress)
    IN [id |-> r.id,
        name |-> IF r.name_vals # <<>> /\ r.name_vals[1].t = "str"
                 THEN r.name_vals[1].s ELSE <<>>,
        domains |-> {held[i].s : i \in DOMAIN held},
        created_at |-> r.created_at]

InitCompanies ==
    /\ \E n \in 0..MaxCompanies :
          \E names \in [1..n -> CompanyNameValues], doms \in [1..n -> CompanyDomainValues] :
              cfetched = [i \in 1..n |-> Company(i, names[i], doms[i])]
    /\ dup_domains = <<>>
    /\ dup_names = <<>>
    /\ mduplicates = <<>>
    /\ kpc = "start"
    /\ MergeUnused
    /\ ClientUnused
    /\ ExtractUnused
    /\ MigrateUnused
    /\ FindUnused
    /\ FlattenUnused
    /\ ConfigUnused
    /\ MainUnused
    /\ FetchUnused

\* find_duplicates: process_companies(records), from call to return
Companies_Process ==
    /\ kpc = "start"
    /\ dup_domains' = process_companies(cfetched).dup_domains
    /\ dup_names' = process_companies(cfetched).dup_names
    /\ kpc' = "reported"
    /\ UNCHANGED <<cfetched, mduplicates>>
    /\ UNCHANGED notCompany

\* merge_duplicates.main on the same records: name_map and `duplicates`
Companies_MergeGroups ==
    /\ kpc = "reported"
    /\ mduplicates' = Duplicates([i \in DOMAIN cfetched |-> FetchedCompany(cfetched[i])])
    /\ kpc' = "grouped"
    /\ UNCHANGED <<cfetched, dup_domains, dup_names>>
    /\ UNCHANGED notCompany

NextCompanies == Companies_Process \/ Companies_MergeGroups

SpecCompanies == InitCompanies /\ [][NextCompanies]_vars

(***************************************************************************)
(* flatten_record(record), called twice on the same record                 *)
(***************************************************************************)
\* the links: a prefix, then at most MaxUrl characters
UrlPrefixes == {<<>>, <<"h", "/">>, XDomain, TwitterDomain, <<" ">> \o XDomain}
UrlChars == {"j", ".", "/", "?", " "}
Urls ==
    {p \o b : p \in UrlPrefixes, b \in UNION {[1..n -> UrlChars] : n \in 0..MaxUrl}}

\* a field the record does not have
Absent == [t |-> "absent", s |-> <<>>, d |-> NoDict]

\* the record with the fields of `choice` that are not Absent
RecordOf(choice) == [k \in {f \in DOMAIN choice : choice[f] # Absent} |-> choice[k]]

\* source records: one per link, and one per choice of the other fields (a
\* structured value, another value, or no field; email_primary is a source
\* field that has the name of a derived key)
SourceRecords ==
    {("id" :> Text(<<"1">>)) @@ ("xLink" :> Dict("primaryLinkUrl" :> u)) : u \in Urls}
    \cup
    {RecordOf(c) : c \in
        [name : {Absent, NoneValue, Text(<<"R", "1">>), Dict("firstName" :> <<"A">>),
                 Dict(("firstName" :> <<"A">>) @@ ("lastName" :> <<"B">>))},
         emails : {Absent, Dict(NoDict), Dict("primaryEmail" :> <<"a", "@", "b">>)},
         linkedinLink : {Absent, Dict("primaryLinkUrl" :> <<"l">>)},
         xLink : {Absent, Text(<<"t">>)},
         email_primary : {Absent, Text(<<"o">>)}]}

FlattenCalls == 2

InitFlatten ==
    /\ frecord \in SourceRecords
    /\ given = frecord
    /\ flats = <<>>
    /\ MergeUnused
    /\ ClientUnused
    /\ ExtractUnused
    /\ MigrateUnused
    /\ FindUnused
    /\ ConfigUnused
    /\ CompanyUnused
    /\ MainUnused
    /\ FetchUnused

\* flatten_record(record), from call to return
Flatten_Call ==
    /\ Len(flats) < FlattenCalls
    /\ flats' = Append(flats, flatten_record(frecord))
    /\ frecord' = RecordAfter(frecord, flatten_record(frecord))
    /\ UNCHANGED given
    /\ UNCHANGED notFlatten

NextFlatten == Flatten_Call

SpecFlatten == InitFlatten /\ [][NextFlatten]_vars

(***************************************************************************)
(* The start of a migration: import of the module, then main() up to the   *)
(* creation of the clients                                                 *)
(***************************************************************************)
EnvValues == {Unset, SetTo(<<>>), SetTo(<<"5">>)}

InitConfig ==
    /\ environ \in [Settings -> EnvValues]
    /\ loaded = NoDict
    /\ cpc = "import"
    /\ clients = 0
    /\ MergeUnused
    /\ ClientUnused
    /\ ExtractUnused
    /\ MigrateUnused
    /\ FindUnused
    /\ FlattenUnused
    /\ CompanyUnused
    /\ MainUnused
    /\ FetchUnused

\* the module-level assignments; an int() that raises ends the program
Config_Load ==
    /\ cpc = "import"
    /\ IF \E k \in NumberSettings : IntRaises(getenv(environ, k))
       THEN cpc' = "value_error" /\ UNCHANGED loaded
       ELSE cpc' = "main" /\ loaded' = LoadSettings(environ)
    /\ UNCHANGED <<environ, clients>>
    /\ UNCHANGED notConfig

\* main(), step 1: check_configuration(), sys.exit(1) when it returns False
Config_Check ==
    /\ cpc = "main"
    /\ cpc' = IF MissingSettings(loaded) # {} THEN "config_error" ELSE "configured"
    /\ UNCHANGED <<environ, loaded, clients>>
    /\ UNCHANGED notConfig

\* main(), step 2: test_connections() creates the two clients
Config_Connect ==
    /\ cpc = "configured"
    /\ clients' = 2
    /\ cpc' = "connected"
    /\ UNCHANGED <<environ, loaded>>
    /\ UNCHANGED notConfig

NextConfig == Config_Load \/ Config_Check \/ Config_Connect

SpecConfig == InitConfig /\ [][NextConfig]_vars

(***************************************************************************)
(* Properties of the merge run                                             *)
(***************************************************************************)
\* the requests issued for group g, in order
RequestsOf(g) == SelectSeq(issued, LAMBDA r : r.group = g)

\* processing of group g has ended
GroupEnded(g) == g \in DOMAIN duplicates /\ (g < gi \/ mpc = "done")

\* the members of group g as fetched
Members(g) == duplicates[g].recs

\* the member of group g with the smallest creation timestamp, the one fetched
\* first among equals
Earliest(g) ==
    LET ms == Members(g)
    IN ms[CHOOSE i \in DOMAIN ms : \A j \in DOMAIN ms :
            \/ ms[i].created_at < ms[j].created_at
            \/ ms[i].created_at = ms[j].created_at /\ i <= j]

FetchedDomains(g) == UNION {Members(g)[i].domains : i \in DOMAIN Members(g)}

\* C1: once a delete of a group failed, no further request (delete or update)
\* is issued for that group and its master still holds exactly the domains it
\* had when the group was fetched
C1_MergeAbort ==
    \A i \in DOMAIN issued :
        (issued[i].op = "DELETE" /\ ~issued[i].ok) =>
            /\ \A j \in DOMAIN issued : j > i => issued[j].group # issued[i].group
            /\ target[Earliest(issued[i].group).id].alive
            /\ target[Earliest(issued[i].group).id].domains
                   = Earliest(issued[i].group).domains

\* a group of three or more whose second delete failed after the first succeeded
C1_Witness ==
    /\ mpc = "done"
    /\ \E g \in DOMAIN duplicates :
          /\ Len(Members(g)) >= 3
          /\ Len(RequestsOf(g)) = 2
          /\ RequestsOf(g)[1].ok
          /\ ~RequestsOf(g)[2].ok
          /\ RequestsOf(g)[2].op = "DELETE"

\* C2: a PATCH of a group's master is issued only after a successful DELETE of
\* every other member of the group, and at most once per group
C2_DeleteBeforeUpdate ==
    \A i \in DOMAIN issued :
        issued[i].op = "PATCH" =>
            LET g == issued[i].group
                ms == Members(g)
            IN /\ issued[i].id = Earliest(g).id
               /\ \A k \in DOMAIN ms :
                     ms[k].id # Earliest(g).id =>
                        \E j \in 1..(i - 1) :
                            issued[j] = [op |-> "DELETE", id |-> ms[k].id,
                                         ok |-> TRUE, group |-> g]
               /\ \A j \in DOMAIN issued :
                     (issued[j].op = "PATCH" /\ issued[j].group = g) => j = i

\* a master update was sent for a group with at least two other members
C2_Witness ==
    \E i \in DOMAIN issued :
        /\ issued[i].op = "PATCH"
        /\ Len(Members(issued[i].group)) >= 3

\* every delete and the update of group g succeeded
MergedCleanly(g) ==
    /\ GroupEnded(g)
    /\ Len(RequestsOf(g)) = Len(Members(g))
    /\ \A k \in DOMAIN RequestsOf(g) : RequestsOf(g)[k].ok

\* C3: after a group whose deletes and update all succeeded, the earliest
\* created member holds exactly the union of the members' domains and every
\* other member is deleted
C3_MergeOutcome ==
    \A g \in DOMAIN duplicates :
        MergedCleanly(g) =>
            /\ target[Earliest(g).id].alive
            /\ target[Earliest(g).id].domains = FetchedDomains(g)
            /\ \A k \in DOMAIN Members(g) :
                  Members(g)[k].id # Earliest(g).id => ~target[Members(g)[k].id].alive

\* the example: members {a.com}, {b.com}, {a.com, c.com} in creation order end
\* as one master holding {a.com, b.com, c.com}
C3_Witness ==
    \E g \in DOMAIN duplicates :
        /\ MergedCleanly(g)
        /\ Len(Members(g)) = 3
        /\ Earliest(g).domains = {"a.com"}
        /\ {Members(g)[k].domains : k \in 1..3} = {{"a.com"}, {"b.com"}, {"a.com", "c.com"}}
        /\ target[Earliest(g).id].domains = {"a.com", "b.com", "c.com"}
        /\ Cardinality({id \in DOMAIN target : target[id].alive}) = MaxRecs - 2

\* C4: once a group has ended, every domain a member held at fetch time is
\* held by a surviving record
C4_NoDataLoss ==
    \A g \in DOMAIN duplicates :
        GroupEnded(g) =>
            \A d \in FetchedDomains(g) :
                \E id \in DOMAIN target : target[id].alive /\ d \in target[id].domains

\* number of steps main() can still take from the head of the loop at group g
RECURSIVE StepsFrom(_)
StepsFrom(g) ==
    IF g > Len(duplicates) THEN 1
    ELSE Len(Members(g)) + 1 + StepsFrom(g + 1)

\* an upper bound of the number of steps the run can still take
StepsLeft ==
    CASE mpc = "start" -> 2 * MaxRecs + 2
      [] mpc = "loop" -> StepsFrom(gi)
      [] mpc = "delete" -> (Len(others) - oi) + 2 + StepsFrom(gi + 1)
      [] mpc = "update" -> 1 + StepsFrom(gi + 1)
      [] OTHER -> 0

\* a run that has not ended is at a control point from which main() takes a
\* step (the guards of the four steps are exactly these control points)
CanStep ==
    /\ mpc \in {"start", "loop", "delete", "update", "done"}
    /\ mpc = "delete" => oi \in DOMAIN others
    /\ mpc = "update" => master.id \in DOMAIN target

\* C5: every duplicate group is processed exactly once, whatever failed in
\* the groups before it, and the run ends after the last group: a run that
\* has not ended can always take a step, every step brings the end nearer,
\* and at the end each group has been entered once, in order
C5_GroupIndependence ==
    /\ [](mpc = "done" => begun = [i \in 1..Len(duplicates) |-> i])
    /\ []CanStep
    /\ [][StepsLeft' < StepsLeft]_vars

\* a run that ended after a failure in its first group and requests for a
\* second group
C5_Witness ==
    /\ mpc = "done"
    /\ Len(duplicates) >= 2
    /\ \E i \in DOMAIN issued : issued[i].group = 1 /\ ~issued[i].ok
    /\ \E i \in DOMAIN issued : issued[i].group = 2

(***************************************************************************)
(* Properties of APIClient.request                                         *)
(***************************************************************************)
\* request() has ended
Ended == outcome.kind \in {"returned", "raised", "returned_none"}

\* attempt i of the running request failed transiently
Failed(i) == sent[i].answer.kind \in {"HTTPError", "RequestException"}

\* C6: when every attempt fails, exactly MAX_RETRIES attempts are made, the
\* sleep before attempt i+1 is 2^i (i = 0, 1, ...), so there are
\* MAX_RETRIES - 1 sleeps and none after the last attempt, and the error of
\* the last attempt is raised
C6_RetryBound ==
    /\ slept = [i \in 1..Len(slept) |-> 2 ^ (i - 1)]
    /\ (Ended /\ sent # <<>> /\ \A i \in DOMAIN sent : Failed(i)) =>
          /\ Len(sent) = MAX_RETRIES
          /\ Len(slept) = MAX_RETRIES - 1
          /\ outcome.kind = "raised"
          /\ outcome.answer = sent[Len(sent)].answer
          /\ outcome.answer.attempt = MAX_RETRIES

\* three failing attempts with sleeps of 1 and 2 units, then the error
C6_Witness ==
    /\ MAX_RETRIES = 3
    /\ outcome.kind = "raised"
    /\ Len(sent) = 3
    /\ slept = <<1, 2>>
    /\ sent[1].answer.kind = "RequestException"
    /\ sent[3].answer.kind = "HTTPError"

\* C7: when attempt k is the first that succeeds, request() returns the
\* response of attempt k, raises nothing, makes no attempt after it, and every
\* attempt was sent with the method, url and arguments of the call
C7_RetryThenSucceed ==
    /\ [](\A k \in DOMAIN sent :
             ~Failed(k) =>
                /\ k = Len(sent)
                /\ k <= MAX_RETRIES
                /\ outcome = [kind |-> "returned", answer |-> sent[k].answer]
                /\ outcome.answer.attempt = k
                /\ \A i \in 1..(k - 1) : Failed(i))
    /\ [](\A i \in DOMAIN sent : sent[i].args = call)
    /\ [][outcome.kind = "returned" => (sent' = sent /\ outcome' = outcome)]_vars

\* two failures, then the third and last permitted attempt succeeds
C7_Witness ==
    /\ MAX_RETRIES = 3
    /\ outcome.kind = "returned"
    /\ Len(sent) = 3
    /\ Failed(1)
    /\ Failed(2)
    /\ outcome.answer.attempt = 3
    /\ "timeout" \in DOMAIN call.kwargs

\* the write of the record at hand was rejected with a 400 on its first attempt
Rejected ==
    /\ gpc = "write"
    /\ sent # <<>>
    /\ sent[1].answer.kind = "HTTPError"
    /\ sent[1].answer.status = 400

\* C8: a write that the target rejects with a 4xx validation status is
\* attempted exactly once (no backoff sleep, no second attempt) and is
\* recorded as exactly one Failure for that record
C8_ValidationNotRetried ==
    /\ [](Rejected => (Len(sent) = 1 /\ slept = <<>>))
    /\ [][(Rejected /\ gpc' # "write") =>
            /\ failed_records' =
                  Append(failed_records,
                         ErrorEntry(TwentyId(mrecords[ri]), ErrorOf(sent[1].answer), payload))
            /\ error_count' = error_count + 1
            /\ successful_records' = successful_records
            /\ success_count' = success_count]_vars

(***************************************************************************)
(* Properties of extract_records                                           *)
(***************************************************************************)
\* the records page k serves for the collection "people"
Served(k) ==
    CASE source[k].data.t = "list" -> source[k].data.items
      [] source[k].data.t = "dict" /\ source[k].data.key = People -> source[k].data.items
      [] OTHER -> <<>>

\* page k names a next page
HasNext(k) == ~source[k].next_cursor.none /\ source[k].next_cursor.s # <<>>

\* the pages that contribute records when reading starts at page k: every
\* page up to and including the first one without next cursor; a page
\* without data or with an empty batch ends the reading and contributes
\* nothing
RECURSIVE PagesFrom(_, _)
PagesFrom(k, fuel) ==
    IF fuel = 0 \/ Served(k) = <<>> THEN <<>>
    ELSE IF HasNext(k) THEN <<k>> \o PagesFrom(source[k].next_cursor.s[1], fuel - 1)
    ELSE <<k>>

RECURSIVE RecordsOf(_)
RecordsOf(ks) ==
    IF ks = <<>> THEN <<>>
    ELSE [i \in DOMAIN Served(ks[1]) |-> flatten_record(Served(ks[1])[i])]
             \o RecordsOf(Tail(ks))

RECURSIVE SizeOf(_)
SizeOf(ks) == IF ks = <<>> THEN 0 ELSE Len(Served(ks[1])) + SizeOf(Tail(ks))

\* C9: when every page request was answered, extract_records returns the
\* flattened records of all pages up to and including the first page without
\* next cursor, in page order and within-page order, so their number is the
\* sum of the batch sizes; a page without data key or with an empty batch
\* ends pagination and contributes nothing
C9_PaginationComplete ==
    (xpc = "done" /\ outcome.kind = "returned") =>
        /\ xrecords = RecordsOf(PagesFrom(1, MaxPages + 1))
        /\ Len(xrecords) = SizeOf(PagesFrom(1, MaxPages + 1))
        /\ Len(asked) \in {Len(PagesFrom(1, MaxPages + 1)), Len(PagesFrom(1, MaxPages + 1)) + 1}

\* three pages of 1, 2 and 1 records read without any failure
C9_Witness ==
    /\ xpc = "done"
    /\ outcome.kind = "returned"
    /\ Len(asked) = 3
    /\ Len(xrecords) = 4
    /\ slept = <<>>
    /\ xrecords[1] = flatten_record(Rec1)
    /\ xrecords[2] = flatten_record(Rec2)
    /\ "cursor" \in DOMAIN asked[3]

\* C10: when a page request fails after one or more pages were fetched,
\* extract_records ends normally and returns the records accumulated from the
\* earlier pages; the failure is not propagated
C10_BestEffort ==
    (outcome.kind = "raised" /\ xpc # "get" /\ Len(asked) >= 2) =>
        /\ xpc = "done"
        /\ xrecords = RecordsOf(PagesFrom(1, Len(asked) - 1))

\* page k ends the reading: no data key, an empty batch, or no next cursor
Stops(k) == LacksData(source[k]) \/ Served(k) = <<>> \/ ~HasNext(k)

\* the page that page k points to
NextOf(k) == source[k].next_cursor.s[1]

\* one of the first `fuel` pages read from page k on ends the reading
RECURSIVE ChainStops(_, _)
ChainStops(k, fuel) == fuel > 0 /\ (Stops(k) \/ ChainStops(NextOf(k), fuel - 1))

\* the extraction has read MaxPages + 1 pages and goes on: the point where
\* the model stops following the loop
AtCap == xpc = "loop" /\ page > MaxPages + 1

\* C11: extract_records ends after answered requests only if the source
\* served a page that lacks data, has an empty batch or has no next cursor;
\* the loop has no cap of its own, so on a source whose pages all have a
\* batch and a next cursor it is still running after every page was read,
\* about to repeat a request it has already made; before its end the loop is
\* never stuck
C11_PaginationTermination ==
    /\ (xpc = "done" /\ outcome.kind = "returned") => ChainStops(1, MaxPages)
    /\ AtCap =>
          /\ ~ChainStops(1, MaxPages)
          /\ \E i \in DOMAIN asked : asked[i] = Params(cursor)
    /\ (xpc = "loop" /\ outcome.kind = "returned" /\ ~ChainStops(1, MaxPages)) =>
          /\ page = Len(asked) + 1
          /\ Len(xrecords) = SizeOf([i \in 1..Len(asked) |-> PageOf(asked[i])])
    /\ xpc = "get" => outcome.kind \in {"pending", "returned", "raised", "returned_none"}

\* every page has a batch and a next cursor: after MaxPages + 1 answered
\* requests the loop is about to ask for a page again
C11_Witness ==
    /\ AtCap
    /\ Len(asked) = MaxPages + 1
    /\ outcome.kind = "returned"
    /\ \A k \in 1..MaxPages : ~Stops(k)
    /\ Len(xrecords) >= MaxPages + 1

(***************************************************************************)
(* Properties of execute_migration                                         *)
(***************************************************************************)
\* the payload execute_migration builds for the record at position i
PayloadOf(i) == BuildPayload(mrecords[i], mapping)

\* C12: in a dry run execute_migration makes no call on the target client
\* and logs one synthetic Success, with target id 'dry-run-id' and the built
\* payload, per input record, and no Failure
C12_DryRunNoWrites ==
    dry_run =>
        /\ written = <<>>
        /\ sent = <<>>
        /\ outcome = Idle
        /\ failed_records = <<>>
        /\ error_count = 0
        /\ success_count = ri - 1
        /\ successful_records =
              [i \in 1..(ri - 1) |->
                  SuccessEntry(TwentyId(mrecords[i]), Id("dry-run-id"), PayloadOf(i))]
        /\ gpc = "done" <=> ri = Len(mrecords) + 1

\* a dry run over two different records has ended
C12_Witness ==
    /\ dry_run
    /\ gpc = "done"
    /\ Len(mrecords) = 2
    /\ mrecords[1] # mrecords[2]
    /\ success_count = 2
    /\ successful_records[2].attio_id = Id("dry-run-id")
    /\ DOMAIN successful_records[1].values # {}

\* the steps one record can take at most: the head of the loop body, the
\* attempts of its write (or the one step that returns None), the result
StepsPerRecord == MAX_RETRIES + 3

\* the steps the record at hand has taken
StepsTaken ==
    IF gpc = "write"
    THEN 1 + Len(sent) + (IF outcome.kind = "pending" THEN 0 ELSE 1)
    ELSE 0

\* a bound on the steps execute_migration has left
MigrateStepsLeft ==
    IF gpc = "done" THEN 0
    ELSE (Len(mrecords) - ri + 1) * StepsPerRecord - StepsTaken

\* execute_migration has ended or can take a step
MigrateCanStep ==
    \/ gpc = "done"
    \/ gpc = "loop" /\ ri <= Len(mrecords)
    \/ gpc = "write" /\ outcome.kind \in {"pending", "returned", "raised", "returned_none"}

\* C13: whatever the writes end with, execute_migration logs one result,
\* Success or Failure, per record handled, is never stuck before its end and
\* ends (every step lowers a bound on the steps left); at its end
\* success_count + error_count = n, the number of records
C13_BatchCompletes ==
    /\ [](/\ success_count + error_count = ri - 1
          /\ Len(successful_records) = success_count
          /\ Len(failed_records) = error_count)
    /\ [](gpc = "done" => success_count + error_count = Len(mrecords))
    /\ []MigrateCanStep
    /\ [][MigrateStepsLeft' < MigrateStepsLeft]_vars

\* a live run of two records has ended: the first write was answered with a
\* body that is not JSON and logged as a Failure, the second failed on every
\* attempt
C13_Witness ==
    /\ gpc = "done"
    /\ ~dry_run
    /\ Len(mrecords) = 2
    /\ error_count = 2
    /\ failed_records[1].error = JsonError
    /\ outcome.kind = "raised"
    /\ Len(sent) = 2

\* the url of the records collection of the target object
RecordsUrl ==
    base_url \o <<"/", "o", "b", "j", "e", "c", "t", "s", "/">> \o target_object
        \o <<"/", "r", "e", "c", "o", "r", "d", "s">>

\* C14: in live mode every record handled gets exactly one logical write to
\* /objects/{target}/records carrying its payload: a PUT with
\* matching_attribute=email_addresses if and only if the target is 'people'
\* and the payload has an email_addresses value, else a POST
C14_CreateVsUpsert ==
    ~dry_run =>
        /\ Len(written) = (IF gpc = "write" THEN ri ELSE ri - 1)
        /\ \A w \in DOMAIN written :
              /\ written[w].record = w
              /\ written[w].call.url = RecordsUrl
              /\ written[w].call.kwargs["json"] = [data |-> PayloadOf(w)]
              /\ IF target_object = People /\ "email_addresses" \in DOMAIN PayloadOf(w).values
                 THEN /\ written[w].call.method = "PUT"
                      /\ written[w].call.kwargs["params"] =
                            ("matching_attribute" :> "email_addresses")
                 ELSE /\ written[w].call.method = "POST"
                      /\ "params" \notin DOMAIN written[w].call.kwargs

\* a people run that upserted a person with an email and created a person
\* without one
C14_Witness ==
    /\ ~dry_run
    /\ gpc = "done"
    /\ target_object = People
    /\ Len(written) = 2
    /\ written[1].call.method = "PUT"
    /\ written[2].call.method = "POST"
    /\ DOMAIN PayloadOf(2).values # {}

\* the step that logs the record at hand, its write having been answered
\* with body {"data": {"id": {"record_id": ...}}}
AnsweredWithId ==
    /\ gpc = "write"
    /\ outcome.kind = "returned"
    /\ outcome.answer.body.form = "json"
    /\ outcome.answer.body.data.t = "record"
    /\ ~outcome.answer.body.record_id.none

\* C15: in live mode, on the create (POST) path and on the upsert (PUT)
\* path, a write answered 2xx with a body holding data.id.record_id is logged
\* as a Success carrying the source id, that record_id as target id and the
\* payload sent
C15_TargetIdRecorded ==
    [][(AnsweredWithId /\ gpc' # "write") =>
          /\ successful_records' =
                Append(successful_records,
                       SuccessEntry(TwentyId(mrecords[ri]),
                                    outcome.answer.body.record_id, payload))
          /\ failed_records' = failed_records]_vars

\* the same on the upsert path alone
TargetIdRecorded_Put ==
    [][(AnsweredWithId /\ call.method = "PUT" /\ gpc' # "write") =>
          /\ successful_records' =
                Append(successful_records,
                       SuccessEntry(TwentyId(mrecords[ri]),
                                    outcome.answer.body.record_id, payload))
          /\ failed_records' = failed_records]_vars

\* C16: a record is logged as a Success if and only if its write was
\* answered 2xx or the run is a dry run; a write that ends with a non-2xx
\* status or a transport failure is logged as a Failure carrying the error,
\* and a 2xx answer is never logged as a Failure
C16_ResponseClassification ==
    /\ [](dry_run => failed_records = <<>>)
    /\ [][(gpc = "write" /\ gpc' # "write") =>
            IF outcome.kind = "returned"
            THEN /\ success_count' = success_count + 1
                 /\ Len(successful_records') = Len(successful_records) + 1
                 /\ failed_records' = failed_records
            ELSE /\ error_count' = error_count + 1
                 /\ Len(failed_records') = Len(failed_records) + 1
                 /\ outcome.kind = "raised" =>
                       failed_records'[Len(failed_records')].error = ErrorOf(outcome.answer)
                 /\ successful_records' = successful_records]_vars

\* the payload test_execute_migration_live expects for a record whose name
\* is the text v
ValuePayload(v) == [values |-> ("name" :> One("value" :> v))]

\* C17: for target 'people', mapping {name -> name} and a record whose name
\* is a text v and that has no email, the body passed to the create call is
\* {data: {values: {name: [{value: v}]}}} and the same payload is logged with
\* the Success
C17_LivePayloadShape ==
    (~dry_run /\ target_object = People /\ mapping = NameMapping) =>
        /\ \A w \in DOMAIN written :
              mrecords[w]["name"].t = "str" =>
                 /\ written[w].call.method = "POST"
                 /\ written[w].call.kwargs["json"] =
                       [data |-> ValuePayload(mrecords[w]["name"])]
        /\ \A i \in DOMAIN successful_records :
              \E k \in DOMAIN mrecords :
                 successful_records[i].values = ValuePayload(mrecords[k]["name"]).values

(***************************************************************************)
(* Properties of the payload                                               *)
(***************************************************************************)
\* the record whose payload was built last (0: none yet)
LastBuilt == IF gpc = "write" THEN ri ELSE ri - 1

\* the source fields mapped to target field f that have a value in record i
SourcesOf(i, f) ==
    {j \in DOMAIN mapping :
        mapping[j][2] = f /\ HasValue(GetOrNone(mrecords[i], mapping[j][1]))}

\* the value that reaches target field f of record i: the one of the last
\* such source field in mapping order
ValueFor(i, f) ==
    LET j == CHOOSE j \in SourcesOf(i, f) : \A k \in SourcesOf(i, f) : k <= j
    IN mrecords[i][mapping[j][1]]

LocationTexts == {"line_1", "line_2", "line_3", "line_4", "region", "postcode"}
LocationNulls == {"country_code", "latitude", "longitude"}

\* C19: a non-empty value v mapped to primary_location becomes one entry
\* with every sub-key line_1..line_4, locality, region, postcode,
\* country_code, latitude, longitude: locality = v, the other text sub-keys
\* the empty string, country_code, latitude and longitude null
C19_LocationShape ==
    (LastBuilt >= 1 /\ SourcesOf(LastBuilt, "primary_location") # {}) =>
        LET e == payload.values["primary_location"]
        IN /\ e.list
           /\ DOMAIN e.entry = LocationTexts \cup LocationNulls \cup {"locality"}
           /\ e.entry["locality"] = ValueFor(LastBuilt, "primary_location")
           /\ \A k \in LocationTexts : e.entry[k] = NoText
           /\ \A k \in LocationNulls : e.entry[k] = NoneValue

\* the city "P" of a person was encoded as a location
C19_Witness ==
    /\ LastBuilt >= 1
    /\ "primary_location" \in DOMAIN payload.values
    /\ payload.values["primary_location"].entry["locality"] = Text(<<"P">>)
    /\ mrecords[LastBuilt]["city"] = Text(<<"P">>)

\* record i has the field with a value that is neither null nor the empty
\* string
Filled(i, field) ==
    /\ field \in DOMAIN mrecords[i]
    /\ mrecords[i][field] # NoneValue
    /\ mrecords[i][field] # Text(<<>>)

\* C20: the target fields of the built payload are exactly the mapping
\* targets whose source field is present in the record with a value that is
\* neither null nor the empty string; nothing else appears, and a source
\* field missing from the record is passed over
C20_OnlyMappedNonEmpty ==
    LastBuilt >= 1 =>
        DOMAIN payload.values =
            {mapping[j][2] : j \in {k \in DOMAIN mapping : Filled(LastBuilt, mapping[k][1])}}

\* the people payload of the record without id, whose city is null, whose
\* email is empty and which has no jobTitle: the name only
C20_Witness ==
    /\ LastBuilt >= 1
    /\ mrecords[LastBuilt] = NoIdRec
    /\ mapping = PeopleMapping
    /\ DOMAIN payload.values = {"name"}
    /\ \E j \in DOMAIN mapping : mapping[j][1] \notin DOMAIN mrecords[LastBuilt]

(***************************************************************************)
(* Properties of process_people                                            *)
(***************************************************************************)
\* the lowercase addresses found in the fetched people
AllAddresses == UNION {Range(PersonEmails(fetched[i])) : i \in DOMAIN fetched}

\* the fetched people that hold address e
Holders(e) == {i \in DOMAIN fetched : e \in Range(PersonEmails(fetched[i]))}

\* C21: process_people returns one group per lowercase address held by two
\* or more fetched records, listing each record that holds it once, in fetch
\* order; an address held by a single record yields no group
C21_PeopleDuplicates ==
    fpc = "done" =>
        /\ \A g, h \in DOMAIN dup_people :
              dup_people[g].email = dup_people[h].email => g = h
        /\ {dup_people[g].email : g \in DOMAIN dup_people} =
              {e \in AllAddresses : Cardinality(Holders(e)) >= 2}
        /\ \A g \in DOMAIN dup_people :
              LET group == dup_people[g].recs
              IN /\ Len(group) = Cardinality(Holders(dup_people[g].email))
                 /\ {group[i].id : i \in DOMAIN group} = Holders(dup_people[g].email)
                 /\ \A i, j \in DOMAIN group : i < j => group[i].id < group[j].id

\* the merge loop is inside group gi
InGroup == mpc \in {"delete", "update"}

\* C27: in every duplicate group the master is the member with the smallest
\* creation timestamp (among equal timestamps, the one fetched first), the
\* others are all the remaining members, and no delete request is ever
\* issued for a record that is the master of a group.
C27_MasterSelection ==
    /\ InGroup =>
          /\ master = Earliest(gi)
          /\ Len(others) = Len(Members(gi)) - 1
          /\ {others[k].id : k \in DOMAIN others}
                 = {Members(gi)[k].id : k \in DOMAIN Members(gi)} \ {master.id}
    /\ \A i \in DOMAIN issued :
          issued[i].op = "DELETE" =>
              \A g \in DOMAIN duplicates : issued[i].id # Earliest(g).id

\* a delete was issued in a group of three members created at the same
\* instant, whose master is the member fetched first
C27_Witness ==
    /\ InGroup
    /\ Len(Members(gi)) = 3
    /\ \A k \in DOMAIN Members(gi) : Members(gi)[k].created_at = master.created_at
    /\ master.id = Members(gi)[1].id
    /\ \E i \in DOMAIN issued : issued[i].op = "DELETE" /\ issued[i].group = gi

\* the ids of the members of group g
MemberIds(g) == {Members(g)[k].id : k \in DOMAIN Members(g)}

\* records a and b of target t are both live and hold a common domain
Shares(t, a, b) ==
    /\ t[a].alive
    /\ t[b].alive
    /\ t[a].domains \cap t[b].domains # {}

\* C28: at the moment the master update carrying the consolidated domain set
\* is sent, no other surviving record of the group holds a domain of that
\* set, and no step of the merge makes two live records of a group hold a
\* common domain that they did not hold in common before.
C28_UniquenessRespected ==
    /\ [](mpc = "update" =>
            \A id \in MemberIds(gi) \ {master.id} :
                ~(target[id].alive /\ target[id].domains \cap final_domains # {}))
    /\ [][\A g \in DOMAIN duplicates : \A a, b \in MemberIds(g) :
            (a # b /\ Shares(target', a, b)) => Shares(target, a, b)]_vars

\* the update of a group of three is about to be sent, with a domain that two
\* of its members held when fetched
C28_Witness ==
    /\ mpc = "update"
    /\ Len(Members(gi)) = 3
    /\ \E j, k \in DOMAIN Members(gi) :
          j # k /\ Members(gi)[j].domains \cap Members(gi)[k].domains # {}
    /\ Cardinality(final_domains) = 3

\* the requests of group g when all succeed: the delete of every member after
\* the first in creation order, then the update of the first
ExpectedRequests(g) ==
    [k \in 1..Len(Members(g)) |->
        IF k < Len(Members(g))
        THEN [op |-> "DELETE", id |-> Members(g)[k + 1].id]
        ELSE [op |-> "PATCH", id |-> Members(g)[1].id]]

\* C29: the groups, the master and the consolidated domain set come from the
\* records as fetched once at the start: the fetched records and the groups
\* are never recomputed after the fetch, and whatever another actor changes
\* on the target afterwards, the requests of a group are the deletes and the
\* update of the fetched group, and the update carries the union of the
\* domains the members had when fetched.
C29_SnapshotMerge ==
    /\ [][mpc # "start" => UNCHANGED <<records, duplicates>>]_vars
    /\ [](\A g \in DOMAIN duplicates : \A k \in DOMAIN RequestsOf(g) :
             /\ k <= Len(Members(g))
             /\ RequestsOf(g)[k].op = ExpectedRequests(g)[k].op
             /\ RequestsOf(g)[k].id = ExpectedRequests(g)[k].id)
    /\ [](mpc = "update" =>
             /\ master = Earliest(gi)
             /\ final_domains = FetchedDomains(gi))

\* another actor added a domain to a member of a group after the fetch; the
\* member was deleted and the master updated, and no live record holds the
\* domain
C29_Witness ==
    \E i \in DOMAIN issued :
        /\ issued[i].op = "PATCH"
        /\ issued[i].ok
        /\ \E id \in MemberIds(issued[i].group) :
              ~target[id].alive /\ NewDomain \in target[id].domains
        /\ \A id \in DOMAIN target : target[id].alive => NewDomain \notin target[id].domains

\* C26: every HTTP request of the merge resolver goes through the retrying
\* client, so a delete or update request that fails is followed by another
\* attempt of the same request before the run turns to anything else.
C26_FailedRequestRetried ==
    \A i \in 1..(Len(issued) - 1) :
        ~issued[i].ok =>
            /\ issued[i + 1].op = issued[i].op
            /\ issued[i + 1].id = issued[i].id

\* the response to request k of the extraction
ResponseTo(k) == source[PageOf(asked[k])]

\* the first request carries limit = BATCH_SIZE and no cursor; every later
\* one carries limit = BATCH_SIZE and the next_cursor of the response to the
\* request before it
CursorsFollow ==
    \A k \in DOMAIN asked :
        asked[k] = IF k = 1 THEN ("limit" :> BATCH_SIZE)
                   ELSE ("limit" :> BATCH_SIZE)
                            @@ ("cursor" :> ResponseTo(k - 1).next_cursor)

\* C30 as stated: the first request carries limit = BATCH_SIZE and no cursor,
\* every later request carries limit = BATCH_SIZE and exactly the next_cursor
\* of the preceding response, and the page counter always equals the number
\* of requests issued so far.
C30_PageCountsRequests ==
    /\ CursorsFollow
    /\ page = Len(asked)

\* C30 amended: the requests are as above; the page counter starts at 1 and is
\* the number of the request: from the moment a request is issued until its
\* response has been handled, and when the extraction has ended, it equals
\* the number of requests issued so far; before the first request and after
\* a page that names a next cursor it is one more.
C30_CursorProtocol ==
    /\ CursorsFollow
    /\ asked = <<>> => page = 1
    /\ page = IF xpc = "loop" THEN Len(asked) + 1 ELSE Len(asked)

\* a third request was issued, with the cursor of the second page
C30_Witness ==
    /\ Len(asked) = 3
    /\ asked[2]["cursor"] # asked[3]["cursor"]
    /\ xpc = "done"
    /\ page = 3

(***************************************************************************)
(* Properties of flatten_record                                            *)
(***************************************************************************)
\* the derived key of each nested field
DerivedKey ==
    ("name" :> "name_full") @@ ("emails" :> "email_primary")
        @@ ("linkedinLink" :> "linkedin_url") @@ ("xLink" :> "x_url")
DerivedKeys == {DerivedKey[f] : f \in DOMAIN DerivedKey}

\* C22: for every source record, flatten_record returns the same result on
\* every call, leaves the record it was given unchanged, and the result
\* keeps every original key with its original value, the only keys added
\* being derived keys.
C22_FlattenPure ==
    /\ frecord = given
    /\ \A i \in DOMAIN flats :
          /\ flats[i] = flats[1]
          /\ \A k \in DOMAIN given : k \in DOMAIN flats[i] /\ flats[i][k] = given[k]
          /\ (DOMAIN flats[i]) \ (DOMAIN given) \subseteq DerivedKeys

\* the link of the record, when xLink is a structured value with a link
HasLink == "xLink" \in DOMAIN given /\ given["xLink"].t = "dict"
               /\ "primaryLinkUrl" \in DOMAIN given["xLink"].d
Link == given["xLink"].d["primaryLinkUrl"]
NamesDomain(u) == Contains(u, TwitterDomain) \/ Contains(u, XDomain)
NoMarks(h) == \A i \in DOMAIN h : h[i] \notin {"/", "?", "."}
IsPrefix(h, s) == Len(h) <= Len(s) /\ SubSeq(s, 1, Len(h)) = h
\* h is s up to its first '?' or '.', all of s when it has neither
CutAtMark(h, s) ==
    /\ IsPrefix(h, s)
    /\ \A i \in DOMAIN h : h[i] \notin {"?", "."}
    /\ Len(h) < Len(s) => s[Len(h) + 1] \in {"?", "."}

\* C23 as stated: for a link containing "twitter.com/" or "x.com/", the
\* derived handle is the text after the last '/' of the link, cut at the
\* first '?' and the first '.', and contains no '/', '?' or '.'.
C23_HandleAfterLastSlash ==
    \A i \in DOMAIN flats :
        (HasLink /\ NamesDomain(Link)) =>
            /\ flats[i]["x_url"] = Text(flats[i]["x_url"].s)
            /\ CutAtMark(flats[i]["x_url"].s, AfterLast(Link, "/"))
            /\ NoMarks(flats[i]["x_url"].s)

\* the link without surrounding blanks and without trailing '/'
Trimmed(u) == rstrip_slash(strip(u))

\* C23 amended: for a link containing "twitter.com/" or "x.com/", the derived
\* handle is the text after the last '/' of the link taken without its
\* surrounding blanks and trailing '/' (all of it when no '/' is left), cut
\* at the first '?' and the first '.', and contains no '/', '?' or '.'.
C23_HandleNormalized ==
    \A i \in DOMAIN flats :
        (HasLink /\ NamesDomain(Link)) =>
            /\ flats[i]["x_url"] = Text(flats[i]["x_url"].s)
            /\ CutAtMark(flats[i]["x_url"].s, AfterLast(Trimmed(Link), "/"))
            /\ NoMarks(flats[i]["x_url"].s)

\* a link with a dot in the handle and a trailing '/' has been flattened
C23_Witness ==
    /\ flats # <<>>
    /\ HasLink
    /\ Link = XDomain \o <<"j", ".", "/">>
    /\ flats[1]["x_url"] = Text(<<"j">>)

\* C24: when a nested field is absent from the record or is not a
\* structured value, flatten_record adds no derived key for it.
C24_NoDerivedKeyWithoutField ==
    \A i \in DOMAIN flats : \A f \in DOMAIN DerivedKey :
        (f \notin DOMAIN given \/ given[f].t # "dict") =>
            (DerivedKey[f] \in DOMAIN flats[i] =>
                /\ DerivedKey[f] \in DOMAIN given
                /\ flats[i][DerivedKey[f]] = given[DerivedKey[f]])

(***************************************************************************)
(* Properties of the start-up                                              *)
(***************************************************************************)
\* C25: when one of the six settings (source base URL, source credential,
\* target credential, batch size, per-request timeout, max retry count) is
\* missing or empty, the run ends with a reported configuration error and no
\* API client is ever created.
C25_ConfigurationChecked ==
    (\E k \in DOMAIN environ : ~environ[k].set \/ environ[k].s = <<>>) =>
        /\ clients = 0
        /\ cpc \in {"import", "main", "config_error"}

(***************************************************************************)
(* Properties of process_companies                                         *)
(***************************************************************************)
\* the places (record, position) where a fetched company holds domain d, in
\* any letter case
DomainPlaces(d) ==
    {<<i, j>> \in (DOMAIN cfetched) \X (1..2) :
        /\ j \in DOMAIN cfetched[i].domain_vals
        /\ cfetched[i].domain_vals[j].t = "str"
        /\ cfetched[i].domain_vals[j].s # <<>>
        /\ lower(cfetched[i].domain_vals[j].s) = d}

\* fetched company i has a name
HasCompanyName(i) ==
    /\ cfetched[i].name_vals # <<>>
    /\ cfetched[i].name_vals[1].t = "str"
    /\ cfetched[i].name_vals[1].s # <<>>

\* the fetched companies whose lowercase name is n
NameHolders(n) ==
    {i \in DOMAIN cfetched : HasCompanyName(i) /\ lower(cfetched[i].name_vals[1].s) = n}

AllCompanyDomains == {lower(d) : d \in {DomA, DomUpperA, DomX}}
AllCompanyNames == {lower(v[1].s) : v \in {w \in CompanyNameValues : w # <<>> /\ w[1].t = "str"}}

KeysOf(groups) == {groups[k].key : k \in DOMAIN groups}

\* C31: the by-domain view has one group per lowercase domain with two or
\* more entries (one entry per domain held by a record), the by-name view one
\* group per lowercase name with two or more entries, each built from the
\* same records without regard to the other; so a company that shares a
\* domain and a name with another company is in a group of both views.
C31_IndependentViews ==
    kpc # "start" =>
        /\ KeysOf(dup_domains) = {d \in AllCompanyDomains : Cardinality(DomainPlaces(d)) >= 2}
        /\ \A k \in DOMAIN dup_domains :
              Len(dup_domains[k].recs) = Cardinality(DomainPlaces(dup_domains[k].key))
        /\ KeysOf(dup_names) = {n \in AllCompanyNames : Cardinality(NameHolders(n)) >= 2}
        /\ \A k \in DOMAIN dup_names :
              {dup_names[k].recs[j].id : j \in DOMAIN dup_names[k].recs}
                  = NameHolders(dup_names[k].key)

\* C36: every group of the by-domain and the by-name view contains at least
\* two different record ids and lists each record id at most once, also when
\* a record holds the same domain several times or in different letter case.
C36_DistinctGroupMembers ==
    kpc # "start" =>
        \A view \in {dup_domains, dup_names} : \A k \in DOMAIN view :
            LET recs == view[k].recs
            IN /\ Cardinality({recs[j].id : j \in DOMAIN recs}) >= 2
               /\ \A i, j \in DOMAIN recs : recs[i].id = recs[j].id => i = j

\* C39: for every set of fetched companies, the by-name groups reported by
\* process_companies and the groups merge_duplicates.main merges have the
\* same keys and, key by key, the same member record ids.
C39_ReportMatchesMerge ==
    kpc = "grouped" =>
        /\ KeysOf(dup_names) = {mduplicates[k].name : k \in DOMAIN mduplicates}
        /\ \A a \in DOMAIN dup_names : \A b \in DOMAIN mduplicates :
              dup_names[a].key = mduplicates[b].name =>
                  {dup_names[a].recs[j].id : j \in DOMAIN dup_names[a].recs}
                      = {mduplicates[b].recs[j].id : j \in DOMAIN mduplicates[b].recs}

(***************************************************************************)
(* Properties of MigrationLogger                                           *)
(***************************************************************************)
\* a step that changes one of the two sequences appends one entry for the
\* record in hand to it, counts it, and leaves the other sequence and its
\* count alone
AppendsOne(seq, seqAfter, count, countAfter, other, otherAfter, ocount, ocountAfter) ==
    seqAfter # seq =>
        /\ Len(seqAfter) = Len(seq) + 1
        /\ SubSeq(seqAfter, 1, Len(seq)) = seq
        /\ seqAfter[Len(seqAfter)].twenty_id = TwentyId(mrecords[ri])
        /\ countAfter = count + 1
        /\ otherAfter = other
        /\ ocountAfter = ocount

\* C32: after any sequence of log_success and log_error calls success_count
\* is the length of successful_records and error_count the length of
\* failed_records; every call appends its entry at the end of its own
\* sequence, so entries are in call order, and changes or removes no entry
\* appended earlier and nothing of the other sequence.
C32_AppendOnlyLog ==
    /\ [](success_count = Len(successful_records) /\ error_count = Len(failed_records))
    /\ [][/\ AppendsOne(successful_records, successful_records', success_count,
                         success_count', failed_records, failed_records',
                         error_count, error_count')
          /\ AppendsOne(failed_records, failed_records', error_count, error_count',
                         successful_records, successful_records', success_count,
                         success_count')]_vars

\* a run that logged two failures for two different records
C32_Witness ==
    /\ gpc = "done"
    /\ Len(failed_records) = 2
    /\ failed_records[1].twenty_id # failed_records[2].twenty_id

(***************************************************************************)
(* Properties of main()                                                    *)
(***************************************************************************)
\* C33: every payload sent to the target is built from a record that the
\* source extraction returned (a flattened source record), also when the
\* extraction returned no records.
C33_WritesTraceToSource ==
    \A i \in DOMAIN written :
        /\ written[i].record \in DOMAIN extracted
        /\ mrecords[written[i].record] = extracted[written[i].record]

(***************************************************************************)
(* Properties of the order of execute_migration                            *)
(***************************************************************************)
\* number of results logged
Logged == Len(successful_records) + Len(failed_records)

\* the source id logged for the record at position i
LoggedIdOf(i) ==
    IF "id" \in DOMAIN mrecords[i] THEN mrecords[i]["id"] ELSE Text(<<"u", "n", "k", "n", "o", "w", "n">>)

\* the step logs the result of record ri at the end of one of the logs
AtEnd(log, logAfter) ==
    /\ Len(logAfter) = Len(log) + 1
    /\ SubSeq(logAfter, 1, Len(log)) = log
    /\ logAfter[Len(logAfter)].twenty_id = LoggedIdOf(ri)

LogsCurrent ==
    \/ AtEnd(successful_records, successful_records') /\ failed_records' = failed_records
    \/ AtEnd(failed_records, failed_records') /\ successful_records' = successful_records

\* C34: records are handled strictly in input order: the write of record i
\* begins only when no request is in flight and the results of records
\* 1..i-1 are logged, a result is logged for the record in hand at the end
\* of its log before the next record is taken, and at most one request is in
\* flight at any time.
C34_SequentialMigration ==
    /\ [](gpc # "unused" => /\ Logged = ri - 1
                             /\ (outcome.kind = "pending" => gpc = "write")
                             /\ (~dry_run => Len(written) = IF gpc = "write" THEN ri ELSE ri - 1)
                             /\ \A i \in DOMAIN written : written[i].record = i)
    /\ [][written' # written =>
            /\ outcome.kind # "pending"
            /\ Logged = Len(written)
            /\ Len(written') = Len(written) + 1
            /\ SubSeq(written', 1, Len(written)) = written]_vars
    /\ [][ri' # ri => ri' = ri + 1 /\ LogsCurrent]_vars
    /\ [][Logged' # Logged => ri' = ri + 1]_vars

\* a live run that wrote two records, the first after a retry, and logged a
\* success and then a failure
C34_Witness ==
    /\ gpc = "done"
    /\ Len(written) = 2
    /\ slept # <<>>
    /\ Len(successful_records) = 1
    /\ Len(failed_records) = 1

(***************************************************************************)
(* Properties of the failure convention of APIClient.request               *)
(***************************************************************************)
\* C35: for MAX_RETRIES >= 1 every call of request() ends either by
\* returning the successful response of its last attempt or by raising the
\* error of its last attempt; it returns None only when MAX_RETRIES <= 0,
\* and then without any HTTP attempt.
C35_FailureConvention ==
    outcome.kind \in {"returned", "raised", "returned_none"} =>
        /\ MAX_RETRIES >= 1 =>
              /\ outcome.kind \in {"returned", "raised"}
              /\ sent # <<>>
              /\ outcome.answer = sent[Len(sent)].answer
              /\ outcome.kind = "returned" <=> outcome.answer.kind = "response"
        /\ outcome.kind = "returned_none" <=> MAX_RETRIES <= 0
        /\ outcome.kind = "returned_none" => sent = <<>>

\* a call that raised after all its attempts failed, with a retry in between
C35_Witness ==
    /\ outcome.kind = "raised"
    /\ MAX_RETRIES >= 2
    /\ Len(sent) = MAX_RETRIES

(***************************************************************************)
(* Properties of a second merge run                                        *)
(***************************************************************************)
\* the groups a second run of main() would build from the target as it is
SecondRunGroups == Duplicates(QueryAll(target))

RequestsFor(n) == (n \div FetchLimit) + 1

\* C38: the fetch requests offsets 0, limit, 2*limit, ... in order and stops
\* after the first batch shorter than limit; when no request fails and the
\* target holds N records it makes exactly floor(N/limit)+1 requests and
\* returns all N records once each in query order; and the loop ends: it
\* never makes more than floor(N/limit)+1 requests, every step is a request,
\* and a fetch that has not ended makes one.
C38_OffsetPagination ==
    /\ [](payloads = [k \in 1..Len(payloads) |->
                        [limit |-> FetchLimit, offset |-> (k - 1) * FetchLimit]])
    /\ []((qpc = "done" /\ ~fetch_failed) =>
             /\ Len(payloads) = RequestsFor(Len(stored))
             /\ collected = stored)
    /\ [](~fetch_failed => collected = SubSeq(stored, 1, Len(collected)))
    /\ [](Len(payloads) <= RequestsFor(Len(stored)))
    /\ [](qpc \in {"loop", "done"})
    /\ [][Len(payloads') = Len(payloads) + 1]_vars

\* a fetch of two full pages that ended with a third, empty page
C38_Witness ==
    /\ qpc = "done"
    /\ ~fetch_failed
    /\ Len(stored) = 2 * FetchLimit
    /\ Len(payloads) = 3
    /\ collected = stored

====
